---- MODULE Spec2Model ----
(***************************************************************************)
(* Model of go-rate-limiter: the in-memory store (store/memory.go), the    *)
(* fixed-window limiter and the token-bucket limiter.                      *)
(*                                                                         *)
(* Time is counted in ticks, the resolution of time.Time and of            *)
(* time.Duration.  Token counts (float64 in the source) are kept in units  *)
(* of 1/TokScale token, and a refill rate is a number of such units per    *)
(* tick, so that refill, clamp and comparison are exact.                   *)
(***************************************************************************)
EXTENDS Integers, Sequences, FiniteSets

\* ---------------------------------------------------------------- bounds
MaxTime == 12        \* horizon of the token-bucket specifications
MaxTimeFW == 6       \* horizon of the fixed-window specification
MaxTimeBoth == 3     \* horizon of the specification of both limiters
MaxCalls == 4        \* Allow calls made in one behaviour
MaxCallsBoth == 3    \* the same, where both limiters are called
TokScale == 12       \* token units per token
NumProcs == 2        \* goroutines calling Allow concurrently
MaxTimeConc == 3     \* horizon of the specification of concurrent callers
MaxFailures == 2     \* Allow calls whose store operation fails
MaxRequests == 2     \* requests served by the middleware
TicksPerSecond == 2  \* ticks in one second of Unix time
MaxResetAfter == 4   \* longest wait a custom Limiter reports, in ticks
MaxReplies == 2      \* calls of the Redis store in one behaviour
TicksPerMilli == 2   \* ticks in one millisecond, where the remote counter is called
MaxTimeRedis == 23   \* horizon where the remote bucket is called, past its time to live
MaxTimeMutex == 1    \* horizon where callers and the reaper contend for the mutex

\* ------------------------------------------------------ program constants
StaleFactor == 10    \* staleThreshold := interval * 10

Keys == {"u1", "u2"}
Limits == {0, 1, 2}              \* limit of the fixed window, burst of the bucket
Windows == {2, 3}
Rates == {1, TokScale}           \* 1/TokScale token per tick, 1 token per tick
FractionalRates == {5, 7}        \* rates at which a token takes no whole number of ticks
CleanupIntervals == {0, 1}       \* 0 disables the reaper
ReaperIntervals == {1, 2, 4}     \* periods of a running reaper
AnyIntervals == {-1, 0, 1}       \* a cleanupInterval of either sign
RedisWindows == {1, 2, 3}        \* windows of half a millisecond and more
RedisRates == {7}                \* rate of the remote bucket, 7/12 token a tick
RedisBursts == {1, 6}            \* a time to live of 10 seconds, and one above
Procs == 1..NumProcs             \* the calling goroutines
NoError == "nil"                 \* the nil error
StoreErrors == {"connection refused", "script error"}  \* errors of a Store
ErrorExceeded == "rate limit exceeded"   \* the sentinel error
KeyErrors == {"no api key"}              \* errors of a KeyFunc
Middlewares == {"nethttp", "gin"}        \* the two adapters

VARIABLES
    now,                 \* time.Now()
    limit, window,       \* FixedWindowLimiter.limit, .window
    rate, burst,         \* TokenBucketLimiter.rate, .burst
    cleanupInterval,     \* NewMemory's cleanupInterval
    fixedWindowEntries,  \* MemoryStore.fixedWindowEntries
    tokenBucketEntries,  \* MemoryStore.tokenBucketEntries
    tickPending,         \* a tick waits in ticker.C (a channel of capacity 1)
    mu,                  \* MemoryStore.mu: 0 unlocked, or the goroutine holding it
    callers,             \* the position and the locals of each calling goroutine
    ctxDone,             \* the context passed to NewMemory is cancelled
    reaper,              \* the goroutine of runCleanup: "none", "running", "stopped"
    lateSweeps,          \* history: the sweeps made since ctx was cancelled
    fwLog,               \* history: the fixed-window Allow calls and their results
    tbLog,               \* history: the token-bucket Allow calls, and the evictions
    errLog,              \* history: the Allow calls whose store operation failed
    httpLog,             \* history: the requests served by the middleware
    redisLog,            \* history: the calls of the Redis store and their replies
    inflight,            \* the request between limiter.Allow and its headers
    redisCounters,       \* the Redis server: the keys of the fixed-window script
    redisBuckets         \* the Redis server: the hashes of the token-bucket script

vars == <<now, limit, window, rate, burst, cleanupInterval, fixedWindowEntries,
          tokenBucketEntries, tickPending, mu, callers, ctxDone, reaper,
          lateSweeps,
          fwLog, tbLog, errLog, httpLog, redisLog, inflight, redisCounters,
          redisBuckets>>

config == <<limit, window, rate, burst, cleanupInterval>>
goroutines == <<mu, callers>>
lifecycle == <<ctxDone, reaper, lateSweeps>>
integration == <<errLog, httpLog>>
redisServer == <<redisCounters, redisBuckets>>
remote == <<redisLog, inflight, redisServer>>

Max(a, b) == IF a >= b THEN a ELSE b
Min(a, b) == IF a <= b THEN a ELSE b

\* ------------------------------------------------------------ store data
\* A map lookup of a missing key yields the zero value and found = false.
fixedWindowEntry(c, x) == [found |-> TRUE, count |-> c, expiresAt |-> x]
noFixedWindowEntry == [found |-> FALSE, count |-> 0, expiresAt |-> 0]

tokenBucketEntry(tk, upd) == [found |-> TRUE, tokens |-> tk, lastUpdated |-> upd]
noTokenBucketEntry == [found |-> FALSE, tokens |-> 0, lastUpdated |-> 0]

\* A key of the Redis server that holds the integer of the fixed-window
\* script: its value and, if it has a time to live, the instant it expires.
noRedisCounter == [found |-> FALSE, value |-> 0, ttl |-> FALSE, expireAt |-> 0]

\* A key of the Redis server that holds the hash of the token-bucket script:
\* the fields tokens and last_updated, and the instant the key expires.
noRedisBucket ==
    [found |-> FALSE, tokens |-> 0, last_updated |-> 0, ttl |-> FALSE,
     expireAt |-> 0]

\* The server sees a key until its time to live has run out.
RedisAlive(e, t) == e.found /\ (e.ttl => ~(t > e.expireAt))

\* ------------------------------------------------- MemoryStore.Increment
\* The critical section of Increment at instant t: the new entry of the key
\* and the count returned.
\* Mutant: an entry is replaced as soon as its expiresAt is reached.
Increment_ExpiresAtBoundary(e, t, w) ==
    LET found == e.found /\ ~(t >= e.expiresAt)
        ne == IF ~found THEN fixedWindowEntry(1, t + w)
                        ELSE [e EXCEPT !.count = @ + 1]
    IN  [entry |-> ne, count |-> ne.count]

\* Mutant: an entry is counted on after its expiry, until the reaper takes it.
Increment_NoExpiryCheck(e, t, w) ==
    LET ne == IF ~e.found THEN fixedWindowEntry(1, t + w)
                          ELSE [e EXCEPT !.count = @ + 1]
    IN  [entry |-> ne, count |-> ne.count]

\* Mutant: every request moves the expiry of the entry (a sliding window).
Increment_Sliding(e, t, w) ==
    LET found == e.found /\ ~(t > e.expiresAt)
        ne == IF ~found THEN fixedWindowEntry(1, t + w)
                        ELSE fixedWindowEntry(e.count + 1, t + w)
    IN  [entry |-> ne, count |-> ne.count]

Increment(e, t, w) ==
    LET found == e.found /\ ~(t > e.expiresAt)
        ne == IF ~found THEN fixedWindowEntry(1, t + w)
                        ELSE [e EXCEPT !.count = @ + 1]
    IN  [entry |-> ne, count |-> ne.count]

\* ------------------------------------------------- MemoryStore.TakeToken
\* The bucket content after the refill and the clamp to burst.
Refill(e, t, r, b) ==
    LET elapsed == t - e.lastUpdated
        tk == IF elapsed > 0 THEN e.tokens + elapsed * r ELSE e.tokens
    IN  IF tk > b * TokScale THEN b * TokScale ELSE tk

\* Mutant: a new entry carries the zero time instead of the present instant.
TakeToken_ZeroTime(e, t, r, b) ==
    IF ~e.found
    THEN [entry |-> tokenBucketEntry(b * TokScale - TokScale, 0),
          allowed |-> TRUE, tokens |-> b * TokScale - TokScale]
    ELSE LET tk == Refill(e, t, r, b)
         IN  IF tk >= TokScale
             THEN [entry |-> tokenBucketEntry(tk - TokScale, t),
                   allowed |-> TRUE, tokens |-> tk - TokScale]
             ELSE [entry |-> tokenBucketEntry(tk, t),
                   allowed |-> FALSE, tokens |-> tk]

\* Mutant: a refused call restarts the clock of the bucket without storing
\* what the bucket has refilled.
TakeToken_DropsRefill(e, t, r, b) ==
    IF ~e.found
    THEN [entry |-> tokenBucketEntry(b * TokScale - TokScale, t),
          allowed |-> TRUE, tokens |-> b * TokScale - TokScale]
    ELSE LET tk == Refill(e, t, r, b)
         IN  IF tk >= TokScale
             THEN [entry |-> tokenBucketEntry(tk - TokScale, t),
                   allowed |-> TRUE, tokens |-> tk - TokScale]
             ELSE [entry |-> tokenBucketEntry(e.tokens, t),
                   allowed |-> FALSE, tokens |-> tk]

\* The critical section of TakeToken at instant t.
TakeToken(e, t, r, b) ==
    IF ~e.found
    THEN [entry |-> tokenBucketEntry(b * TokScale - TokScale, t),
          allowed |-> TRUE, tokens |-> b * TokScale - TokScale]
    ELSE LET tk == Refill(e, t, r, b)
         IN  IF tk >= TokScale
             THEN [entry |-> tokenBucketEntry(tk - TokScale, t),
                   allowed |-> TRUE, tokens |-> tk - TokScale]
             ELSE [entry |-> tokenBucketEntry(tk, t),
                   allowed |-> FALSE, tokens |-> tk]

\* ------------------------------------------------ MemoryStore.runCleanup
staleThreshold(interval) == interval * StaleFactor

\* Mutant: an entry is swept one tick after it could be.
SweepFixedWindow_Late(entries, t) ==
    [k \in Keys |-> IF entries[k].found /\ t > entries[k].expiresAt + 1
                    THEN noFixedWindowEntry ELSE entries[k]]

\* Mutant: an entry is swept at the very instant of its expiresAt.
SweepFixedWindow_AtExpiry(entries, t) ==
    [k \in Keys |-> IF entries[k].found /\ t >= entries[k].expiresAt
                    THEN noFixedWindowEntry ELSE entries[k]]

SweepFixedWindow(entries, t) ==
    [k \in Keys |-> IF entries[k].found /\ t > entries[k].expiresAt
                    THEN noFixedWindowEntry ELSE entries[k]]

Stale(e, t, interval) == e.found /\ t - e.lastUpdated > staleThreshold(interval)

\* Mutant: a bucket is swept as soon as its idle time reaches the threshold.
SweepTokenBucket_AtThreshold(entries, t, interval) ==
    [k \in Keys |-> IF /\ entries[k].found
                       /\ t - entries[k].lastUpdated >= staleThreshold(interval)
                    THEN noTokenBucketEntry ELSE entries[k]]

SweepTokenBucket(entries, t, interval) ==
    [k \in Keys |-> IF Stale(entries[k], t, interval)
                    THEN noTokenBucketEntry ELSE entries[k]]

\* ------------------------------------------------ FixedWindowLimiter.Allow
\* now.Truncate(window): round down to a multiple of window.
Truncate(t, w) == t - (t % w)

\* Mutant: one request too many is admitted.
FixedWindowResult_OffByOne(count, t, lim, w) ==
    [allowed |-> count <= lim + 1,
     limit |-> lim,
     remaining |-> Max(0, lim - count),
     resetAfter |-> (Truncate(t, w) + w) - t]

\* Mutant: the request that reaches the limit is refused.
FixedWindowResult_StrictLimit(count, t, lim, w) ==
    [allowed |-> count < lim,
     limit |-> lim,
     remaining |-> Max(0, lim - count),
     resetAfter |-> (Truncate(t, w) + w) - t]

\* Mutant: the reset is reported one window from the request, not at the end
\* of the aligned window.
FixedWindowResult_Sliding(count, t, lim, w) ==
    [allowed |-> count <= lim,
     limit |-> lim,
     remaining |-> Max(0, lim - count),
     resetAfter |-> w]

FixedWindowResult(count, t, lim, w) ==
    [allowed |-> count <= lim,
     limit |-> lim,
     remaining |-> Max(0, lim - count),
     resetAfter |-> (Truncate(t, w) + w) - t]

\* Result{Allowed: false}: every other field has its zero value.
zeroResult == [allowed |-> FALSE, limit |-> 0, remaining |-> 0, resetAfter |-> 0]

\* Mutant: the error of the store is returned with the Result of the count.
FixedWindowAllowReturn_ResultOnError(count, err, t, lim, w) ==
    [res |-> FixedWindowResult(count, t, lim, w), err |-> err]

\* What Allow returns for what l.store.Increment returned.
FixedWindowAllowReturn(count, err, t, lim, w) ==
    IF err # NoError
    THEN [res |-> zeroResult, err |-> err]
    ELSE [res |-> FixedWindowResult(count, t, lim, w), err |-> NoError]

\* ------------------------------------------------ TokenBucketLimiter.Allow
\* math.Floor of a token count, in whole tokens.
Floor(tk) == tk \div TokScale

\* time.Duration(secondsToWait * float64(time.Second)): truncated to a tick.
ResetAfterTokens(tk, r) == (TokScale - tk) \div r

\* Mutant: the time to the next token is reported for admitted requests too.
TokenBucketResult_AlwaysWait(allowed, tk, r, b) ==
    [allowed |-> allowed,
     limit |-> b,
     remaining |-> IF Floor(tk) < 0 THEN 0 ELSE Floor(tk),
     resetAfter |-> ResetAfterTokens(tk, r)]

\* Mutant: the floor of the token count is not clamped at zero.
TokenBucketResult_NoClamp(allowed, tk, r, b) ==
    [allowed |-> allowed,
     limit |-> b,
     remaining |-> Floor(tk),
     resetAfter |-> IF allowed THEN 0 ELSE ResetAfterTokens(tk, r)]

\* Mutant: a started token counts as a whole one.
TokenBucketResult_RoundsUp(allowed, tk, r, b) ==
    [allowed |-> allowed,
     limit |-> b,
     remaining |-> IF Floor(tk + TokScale - 1) < 0 THEN 0
                   ELSE Floor(tk + TokScale - 1),
     resetAfter |-> IF allowed THEN 0 ELSE ResetAfterTokens(tk, r)]

TokenBucketResult(allowed, tk, r, b) ==
    [allowed |-> allowed,
     limit |-> b,
     remaining |-> IF Floor(tk) < 0 THEN 0 ELSE Floor(tk),
     resetAfter |-> IF allowed THEN 0 ELSE ResetAfterTokens(tk, r)]

\* What Allow returns for what l.store.TakeToken returned.
TokenBucketAllowReturn(allowed, tk, err, r, b) ==
    IF err # NoError
    THEN [res |-> zeroResult, err |-> err]
    ELSE [res |-> TokenBucketResult(allowed, tk, r, b), err |-> NoError]

\* ---------------------------------------------------- calling goroutines
\* A goroutine in FixedWindowLimiter.Allow: where it stands, the instant of its
\* expiry check, the entry it works on and the count Increment returns to it.
idleCaller == [pc |-> "idle", checked |-> 0, found |-> FALSE, present |-> FALSE,
               e |-> noFixedWindowEntry, count |-> 0]

\* The key the concurrent callers share.
SharedKey == "u1"

\* ------------------------------------------------------------- histories
Takes == {i \in DOMAIN tbLog : tbLog[i].op = "take"}
NumCalls == Len(fwLog) + Cardinality(Takes)

\* ------------------------------------------------------------------ Init
\* Mutant: NewMemory falls back to a period of one tick.
ReaperPeriod_DefaultsToOne(interval) == IF interval > 0 THEN interval ELSE 1

\* if cleanupInterval > 0 { go store.runCleanup(ctx, cleanupInterval) }: the
\* period of the ticker of the reaper NewMemory starts, 0 where it starts none.
ReaperPeriod(interval) == IF interval > 0 THEN interval ELSE 0

InitStore ==
    /\ now = 0
    /\ fixedWindowEntries = [k \in Keys |-> noFixedWindowEntry]
    /\ tokenBucketEntries = [k \in Keys |-> noTokenBucketEntry]
    /\ tickPending = FALSE
    /\ mu = 0
    /\ callers = [p \in Procs |-> idleCaller]
    /\ ctxDone = FALSE
    /\ lateSweeps = 0
    /\ fwLog = <<>>
    /\ tbLog = <<>>
    /\ errLog = <<>>
    /\ httpLog = <<>>
    /\ redisLog = <<>>
    /\ inflight = <<>>
    /\ redisCounters = [k \in Keys |-> noRedisCounter]
    /\ redisBuckets = [k \in Keys |-> noRedisBucket]

Init ==
    /\ InitStore
    /\ limit \in Limits
    /\ window \in Windows
    /\ rate \in Rates
    /\ burst \in Limits
    /\ cleanupInterval \in CleanupIntervals
    /\ reaper = IF ReaperPeriod(cleanupInterval) > 0 THEN "running" ELSE "none"

\* --------------------------------------------------------------- actions
\* Time passes; the ticker of the reaper fires at every multiple of interval
\* until runCleanup returns and its deferred ticker.Stop() runs.
Tick(horizon) ==
    /\ now < horizon
    /\ now' = now + 1
    /\ tickPending' = (tickPending \/
                       (/\ ReaperPeriod(cleanupInterval) > 0
                        /\ reaper = "running"
                        /\ (now + 1) % ReaperPeriod(cleanupInterval) = 0))
    /\ UNCHANGED <<lifecycle, integration,
                   config, remote, fixedWindowEntries, tokenBucketEntries, goroutines,
                   fwLog, tbLog>>

\* What the bucket of an entry holds at instant t: the refilled content of a
\* stored entry, a full bucket where the key has no entry.
Held(e, t, r, b) == IF e.found THEN Refill(e, t, r, b) ELSE b * TokScale

\* Mutant: the store keeps the counter of a key as the bucket of the key as
\* well, one map for both limiters.
FixedWindowAllowCtx_OneMap(cancelled, key) ==
    /\ LET r == Increment(fixedWindowEntries[key], now, window)
           res == FixedWindowResult(r.count, now, limit, window)
       IN  /\ fixedWindowEntries' = [fixedWindowEntries EXCEPT ![key] = r.entry]
           /\ tokenBucketEntries' =
                 [tokenBucketEntries EXCEPT
                    ![key] = tokenBucketEntry(r.count * TokScale, now)]
           /\ fwLog' = Append(fwLog, [key |-> key, t |-> now, count |-> r.count,
                                      found |-> fixedWindowEntries[key].found,
                                      expiresAt |-> r.entry.expiresAt,
                                      res |-> res, cancelled |-> cancelled])
    /\ UNCHANGED <<lifecycle, integration,
                   now, config, remote, tickPending, goroutines, tbLog>>

\* FixedWindowLimiter.Allow(ctx, key) over the in-memory store, ctx being
\* cancelled or not: neither Allow nor MemoryStore.Increment reads ctx.
FixedWindowAllowCtx(cancelled, key) ==
    /\ LET r == Increment(fixedWindowEntries[key], now, window)
           res == FixedWindowResult(r.count, now, limit, window)
       IN  /\ fixedWindowEntries' = [fixedWindowEntries EXCEPT ![key] = r.entry]
           /\ fwLog' = Append(fwLog, [key |-> key, t |-> now, count |-> r.count,
                                      found |-> fixedWindowEntries[key].found,
                                      expiresAt |-> r.entry.expiresAt,
                                      res |-> res, cancelled |-> cancelled])
    /\ UNCHANGED <<lifecycle, integration,
                   now, config, remote, tokenBucketEntries, tickPending, goroutines, tbLog>>

\* FixedWindowLimiter.Allow(key) with a context that is not cancelled.
FixedWindowAllow(key) == FixedWindowAllowCtx(FALSE, key)

\* TokenBucketLimiter.Allow(ctx, key) over the in-memory store, ctx being
\* cancelled or not: neither Allow nor MemoryStore.TakeToken reads ctx.
TokenBucketAllowCtx(cancelled, key) ==
    /\ LET e == tokenBucketEntries[key]
           r == TakeToken(e, now, rate, burst)
           res == TokenBucketResult(r.allowed, r.tokens, rate, burst)
       IN  /\ tokenBucketEntries' = [tokenBucketEntries EXCEPT ![key] = r.entry]
           /\ tbLog' = Append(tbLog, [op |-> "take", key |-> key, t |-> now,
                                      found |-> e.found,
                                      had |-> Held(e, now, rate, burst),
                                      tokens |-> r.tokens, res |-> res,
                                      lastUpdated |-> r.entry.lastUpdated,
                                      cancelled |-> cancelled])
    /\ UNCHANGED <<lifecycle, integration,
                   now, config, remote, fixedWindowEntries, tickPending, goroutines, fwLog>>

\* TokenBucketLimiter.Allow(key) with a context that is not cancelled.
TokenBucketAllow(key) == TokenBucketAllowCtx(FALSE, key)

\* The evictions of one sweep, in key order, as history records.
RECURSIVE Evictions(_, _)
Evictions(ks, t) ==
    IF ks = {} THEN <<>>
    ELSE LET k == CHOOSE x \in ks : TRUE
             e == tokenBucketEntries[k]
         IN  (IF Stale(e, t, cleanupInterval)
              THEN <<[op |-> "evict", key |-> k, t |-> t, found |-> TRUE,
                      had |-> Held(e, t, rate, burst)]>>
              ELSE <<>>) \o Evictions(ks \ {k}, t)

\* One iteration of runCleanup's loop on a tick: the sweep under the mutex.
Sweep ==
    /\ reaper = "running"
    /\ tickPending
    /\ mu = 0
    /\ tickPending' = FALSE
    /\ fixedWindowEntries' = SweepFixedWindow(fixedWindowEntries, now)
    /\ tokenBucketEntries' = SweepTokenBucket(tokenBucketEntries, now, cleanupInterval)
    /\ tbLog' = tbLog \o Evictions(Keys, now)
    /\ lateSweeps' = IF ctxDone THEN lateSweeps + 1 ELSE lateSweeps
    /\ UNCHANGED <<ctxDone, reaper, integration, now, config, remote, goroutines, fwLog>>

\* The context passed to NewMemory is cancelled.
Cancel ==
    /\ ~ctxDone
    /\ ctxDone' = TRUE
    /\ UNCHANGED <<now, config, remote, fixedWindowEntries, tokenBucketEntries,
                   tickPending, goroutines, reaper, lateSweeps, fwLog, tbLog,
                   integration>>

\* runCleanup's select takes <-ctx.Done(): the goroutine returns.  When a
\* tick is pending too, the select may take either case.
Stop ==
    /\ reaper = "running"
    /\ ctxDone
    /\ reaper' = "stopped"
    /\ UNCHANGED <<now, config, remote, fixedWindowEntries, tokenBucketEntries,
                   tickPending, goroutines, ctxDone, lateSweeps, fwLog, tbLog,
                   integration>>

\* ------------------------------------------------------------ middleware
\* The response to a request before the middleware has acted: what it wrote,
\* whom it called and what it logged, and the order of these steps.  Status 0
\* is a response left to the downstream handler; a header not set is "unset".
newResponse(mw, keyRet) ==
    [mw |-> mw, limiter |-> "", key |-> keyRet.key, keyErr |-> keyRet.err,
     t |-> now,
     status |-> 0, aborted |-> FALSE,
     headers |-> [Limit |-> "unset", Remaining |-> "unset", Reset |-> "unset",
                  RetryAfter |-> "unset"],
     allowCalls |-> 0, ret |-> [res |-> zeroResult, err |-> NoError],
     next |-> 0, handled |-> <<>>, logs |-> <<>>, steps |-> <<>>]

\* Logger.Errorf, then http.Error(w, ..., 500) and return, or
\* c.AbortWithStatus(500) and return.
InternalServerError(w) ==
    [w EXCEPT !.status = 500, !.aborted = (w.mw = "gin"),
              !.logs = Append(@, "error"),
              !.steps = @ \o <<"Errorf", "500">>]

\* Mutant: Retry-After is the wait with its fraction of a second cut off.
DefaultErrorHandler_Floor(w, err, res) ==
    LET retryAfter == res.resetAfter \div TicksPerSecond
    IN  [w EXCEPT !.status = 429,
                  !.headers.RetryAfter = IF retryAfter <= 0 THEN 1 ELSE retryAfter,
                  !.handled = Append(@, [err |-> err, res |-> res]),
                  !.steps = Append(@, "ErrorHandler")]

\* The default ErrorHandler of NewConfig: Retry-After in whole seconds, at
\* least 1, and 429 Too Many Requests.
DefaultErrorHandler(w, err, res) ==
    LET retryAfter == (res.resetAfter + TicksPerSecond - 1) \div TicksPerSecond
    IN  [w EXCEPT !.status = 429,
                  !.headers.RetryAfter = IF retryAfter <= 0 THEN 1 ELSE retryAfter,
                  !.handled = Append(@, [err |-> err, res |-> res]),
                  !.steps = Append(@, "ErrorHandler")]

\* Mutant: the key function's error is logged and the request goes on.
KeyFuncFailed_GoesOn(keyRet) == FALSE

\* key, err := cfg.KeyFunc(r); if err != nil { ... return }
KeyFuncFailed(keyRet) == keyRet.err # NoError

\* Mutant: X-RateLimit-Reset is the present instant.
SetHeaders_ResetNow(w, res, t) ==
    [w EXCEPT !.headers.Limit = res.limit,
              !.headers.Remaining = res.remaining,
              !.headers.Reset = t \div TicksPerSecond,
              !.steps = Append(@, "headers")]

\* The three X-RateLimit-* headers; time.Now().Add(ResetAfter).Unix().
SetHeaders(w, res, t) ==
    [w EXCEPT !.headers.Limit = res.limit,
              !.headers.Remaining = res.remaining,
              !.headers.Reset = (t + res.resetAfter) \div TicksPerSecond,
              !.steps = Append(@, "headers")]

\* Mutant: a refused request is reported and served all the same.
Dispatch_FailOpen(w, res) ==
    IF ~res.allowed
    THEN [DefaultErrorHandler(w, ErrorExceeded, res)
            EXCEPT !.logs = Append(@, "debug"), !.next = @ + 1,
                   !.steps = Append(@, "next")]
    ELSE [w EXCEPT !.logs = Append(@, "debug"), !.next = @ + 1,
                   !.steps = Append(@, "next")]

\* if !result.Allowed { ErrorHandler(...); return }; next.ServeHTTP / c.Next().
Dispatch(w, res) ==
    IF ~res.allowed
    THEN [DefaultErrorHandler(w, ErrorExceeded, res)
            EXCEPT !.logs = Append(@, "debug"), !.aborted = (w.mw = "gin")]
    ELSE [w EXCEPT !.logs = Append(@, "debug"), !.next = @ + 1,
                   !.steps = Append(@, "next")]

\* Mutant: an error of Allow is logged and the Result is acted upon.
AllowFailed_ActsOnResult(w, ret, t) ==
    Dispatch(SetHeaders([w EXCEPT !.logs = Append(@, "error")], ret.res, t),
             ret.res)

\* result, err := limiter.Allow(...); if err != nil { ... return }
AllowFailed(w, ret, t) == InternalServerError(w)

\* The handler from the return of limiter.Allow on.
AfterAllow(w, ret, t) ==
    LET w1 == [w EXCEPT !.allowCalls = @ + 1, !.ret = ret]
    IN  IF ret.err # NoError
        THEN AllowFailed(w1, ret, t)
        ELSE Dispatch(SetHeaders(w1, ret.res, t), ret.res)

\* What a Limiter that is not backed by the in-memory store may return with
\* an error: the zero Result of the limiters of this package over a failing
\* store, or any Result of another implementation of the interface.
FailingAllowReturns ==
    {[res |-> zeroResult, err |-> e] : e \in StoreErrors}
        \cup {[res |-> [allowed |-> a, limit |-> 1, remaining |-> 1,
                        resetAfter |-> 0],
               err |-> ErrorExceeded] : a \in BOOLEAN}

\* What a Limiter other than the two of this package may return without an
\* error: any Result, a refusal with no wait or a wait below a second included.
CustomAllowReturns ==
    {[res |-> [allowed |-> a, limit |-> 1, remaining |-> IF a THEN 1 ELSE 0,
               resetAfter |-> ra],
      err |-> NoError] : a \in BOOLEAN, ra \in 0..MaxResetAfter}

\* One request through nethttp.Middleware or gin.RateLimiter: keyRet is what
\* the KeyFunc returns; the limiter is one of the two limiters over the
\* in-memory store, or ("failing") a limiter that returns failRet.
Serve(mw, keyRet, limiter, failRet) ==
    LET w == [newResponse(mw, keyRet) EXCEPT !.limiter = limiter]
        fw == Increment(fixedWindowEntries[keyRet.key], now, window)
        tb == TakeToken(tokenBucketEntries[keyRet.key], now, rate, burst)
    IN  IF KeyFuncFailed(keyRet)
        THEN /\ httpLog' = Append(httpLog, InternalServerError(w))
             /\ UNCHANGED <<fixedWindowEntries, tokenBucketEntries>>
        ELSE CASE limiter = "fixedWindow" ->
                  /\ fixedWindowEntries' =
                        [fixedWindowEntries EXCEPT ![keyRet.key] = fw.entry]
                  /\ httpLog' = Append(httpLog,
                        AfterAllow(w, FixedWindowAllowReturn(fw.count, NoError,
                                          now, limit, window), now))
                  /\ UNCHANGED tokenBucketEntries
               [] limiter = "tokenBucket" ->
                  /\ tokenBucketEntries' =
                        [tokenBucketEntries EXCEPT ![keyRet.key] = tb.entry]
                  /\ httpLog' = Append(httpLog,
                        AfterAllow(w, TokenBucketAllowReturn(tb.allowed,
                                          tb.tokens, NoError, rate, burst), now))
                  /\ UNCHANGED fixedWindowEntries
               [] limiter = "failing" ->
                  /\ httpLog' = Append(httpLog, AfterAllow(w, failRet, now))
                  /\ UNCHANGED <<fixedWindowEntries, tokenBucketEntries>>

\* The handler returned by nethttp.Middleware(limiter) serves one request.
Middleware(keyRet, limiter, failRet) ==
    /\ Serve("nethttp", keyRet, limiter, failRet)
    /\ UNCHANGED <<now, config, remote, tickPending, goroutines, lifecycle, fwLog,
                   tbLog, errLog>>

\* The handler returned by gin.RateLimiter(limiter) serves one request.
RateLimiter(keyRet, limiter, failRet) ==
    /\ Serve("gin", keyRet, limiter, failRet)
    /\ UNCHANGED <<now, config, remote, tickPending, goroutines, lifecycle, fwLog,
                   tbLog, errLog>>

\* A request in two steps, the clock running between them.  First step: the
\* handler calls cfg.KeyFunc, which returns key, and Allow of a fixed-window
\* limiter, which counts the request and builds the Result from its own
\* time.Now().
BeginRequest(mw, key) ==
    LET fw == Increment(fixedWindowEntries[key], now, window)
    IN  /\ inflight = <<>>
        /\ fixedWindowEntries' = [fixedWindowEntries EXCEPT ![key] = fw.entry]
        /\ inflight' =
              <<[w |-> [newResponse(mw, [key |-> key, err |-> NoError])
                          EXCEPT !.limiter = "fixedWindow"],
                 ret |-> FixedWindowAllowReturn(fw.count, NoError, now, limit,
                                                window)]>>
        /\ UNCHANGED <<now, config, redisLog, redisServer, tokenBucketEntries,
                       tickPending,
                       goroutines, lifecycle, fwLog, tbLog, integration>>

\* Second step: the handler writes the headers, X-RateLimit-Reset from a
\* time.Now() of its own, and dispatches.
FinishRequest ==
    /\ inflight # <<>>
    /\ httpLog' = Append(httpLog,
                         AfterAllow(inflight[1].w, inflight[1].ret, now))
    /\ inflight' = <<>>
    /\ UNCHANGED <<now, config, redisLog, redisServer, fixedWindowEntries,
                   tokenBucketEntries, tickPending, goroutines, lifecycle,
                   fwLog, tbLog, errLog>>

\* How many times the downstream handler runs for a response: once for
\* next.ServeHTTP or c.Next(), and in Gin once too when the middleware returns
\* without either c.Next() or c.Abort(), the engine then going on down the
\* chain.
Downstream(w) ==
    IF w.mw = "gin" /\ ~w.aborted /\ w.next = 0 THEN 1 ELSE w.next

\* What a KeyFunc may return: a key, or a key and an error.
KeyFuncReturns ==
    {[key |-> SharedKey, err |-> e] : e \in {NoError} \cup KeyErrors}

\* The limiters a middleware may be built on.
Limiters == {"fixedWindow", "tokenBucket", "failing"}

\* ------------------------------------------- Allow over a store that fails
\* FixedWindowLimiter.Allow(key) over a Store whose Increment returns 0 and an
\* error; the in-memory store, which never fails, is not involved.
FixedWindowAllowStoreError(key, err) ==
    /\ errLog' = Append(errLog, [limiter |-> "fixedWindow", key |-> key,
                                 t |-> now, storeErr |-> err,
                                 ret |-> FixedWindowAllowReturn(0, err, now,
                                                                limit, window)])
    /\ UNCHANGED <<now, config, remote, fixedWindowEntries, tokenBucketEntries,
                   tickPending, goroutines, lifecycle, fwLog, tbLog, httpLog>>

\* TokenBucketLimiter.Allow(key) over a Store whose TakeToken returns false, 0
\* and an error.
TokenBucketAllowStoreError(key, err) ==
    /\ errLog' = Append(errLog, [limiter |-> "tokenBucket", key |-> key,
                                 t |-> now, storeErr |-> err,
                                 ret |-> TokenBucketAllowReturn(FALSE, 0, err,
                                                                rate, burst)])
    /\ UNCHANGED <<now, config, remote, fixedWindowEntries, tokenBucketEntries,
                   tickPending, goroutines, lifecycle, fwLog, tbLog, httpLog>>

\* ----------------------------------------------------------- Redis store
\* The values of a script reply as go-redis hands them to the caller: an
\* int64, a string, or nil.
\* A string is one of the literal strings of the model (str), or the numeral
\* that Lua prints for a number (num).
noNumeral == [printed |-> FALSE, units |-> 0, exact |-> TRUE]
IntValue(n) == [type |-> "int64", int |-> n, str |-> "", num |-> noNumeral]
StringValue(s) == [type |-> "string", int |-> 0, str |-> s, num |-> noNumeral]
NilValue == [type |-> "nil", int |-> 0, str |-> "", num |-> noNumeral]
NumeralValue(n) == [type |-> "string", int |-> 0, str |-> "", num |-> n]

\* tostring(tokens) of Lua 5.1, the format "%.14g": the numeral of at most 14
\* significant digits nearest to the number.  A number of tk units of a token
\* has a numeral that denotes it exactly where its decimal expansion ends
\* (its denominator in lowest terms divides 40, for the units of the model);
\* the numeral of any other number denotes a number next to it.
LuaToString(tk) ==
    [printed |-> TRUE, units |-> tk, exact |-> (40 * tk) % TokScale = 0]

\* What Script.Run(...).Result() hands over as res: a []interface{} of values,
\* or one value that is no slice.
ListReply(elems) == [list |-> TRUE, elems |-> elems]
ScalarReply(v) == [list |-> FALSE, elems |-> <<v>>]

\* strconv.ParseFloat(s, 64) on the strings of the model, in token units: the
\* decimal numbers 0, 1 and 2 parse, every other literal string is a syntax
\* error with the value 0.  A numeral printed by Lua parses to the number it
\* denotes: f is the number printed, exact tells whether the result is f or
\* the 14-digit number next to it.
ParseFloat(s) ==
    IF s.num.printed
    THEN [f |-> s.num.units, exact |-> s.num.exact, err |-> NoError]
    ELSE CASE s.str = "0" -> [f |-> 0, exact |-> TRUE, err |-> NoError]
           [] s.str = "1" -> [f |-> TokScale, exact |-> TRUE, err |-> NoError]
           [] s.str = "2" ->
                [f |-> 2 * TokScale, exact |-> TRUE, err |-> NoError]
           [] OTHER -> [f |-> 0, exact |-> TRUE, err |-> "invalid syntax"]

\* remainingTokensStr, _ := arr[1].(string): the string, or "" for a value of
\* another type.
AsString(v) == IF v.type = "string" THEN v ELSE StringValue("")

\* RedisStore.TakeToken from the return of the script on: what it returns to
\* its caller, or the panic of the type assertion arr[0].(int64).
RedisTakeTokenReturn(res, err) ==
    IF err # NoError
    THEN [allowed |-> FALSE, tokens |-> 0, exact |-> TRUE, err |-> err,
          panic |-> FALSE]
    ELSE IF ~res.list \/ Len(res.elems) < 2
    THEN [allowed |-> FALSE, tokens |-> 0, exact |-> TRUE,
          err |-> ErrorExceeded, panic |-> FALSE]
    ELSE IF res.elems[1].type # "int64"
    THEN [allowed |-> FALSE, tokens |-> 0, exact |-> TRUE, err |-> NoError,
          panic |-> TRUE]
    ELSE [allowed |-> res.elems[1].int = 1,
          tokens |-> ParseFloat(AsString(res.elems[2])).f,
          exact |-> ParseFloat(AsString(res.elems[2])).exact,
          err |-> NoError, panic |-> FALSE]

\* window.Milliseconds(): the whole milliseconds of a duration.
Milliseconds(w) == w \div TicksPerMilli

\* redis.call("PEXPIRE", key, ms): the key expires ms milliseconds from now; a
\* time to live that is not positive deletes the key at once.
PExpire(e, t, ms) ==
    IF ms <= 0 THEN noRedisCounter
    ELSE [e EXCEPT !.ttl = TRUE, !.expireAt = t + ms * TicksPerMilli]

\* incrementLua run by the server in one piece at instant t with ARGV[1] = ms:
\* INCR, which starts an absent key at 1 with no time to live, and PEXPIRE if
\* the value is 1.  The new state of the key and the integer replied.
IncrementScript(e, t, ms) ==
    LET current == IF RedisAlive(e, t) THEN [e EXCEPT !.value = @ + 1]
                   ELSE [noRedisCounter EXCEPT !.found = TRUE, !.value = 1]
    IN  [entry |-> IF current.value = 1 THEN PExpire(current, t, ms)
                   ELSE current,
         reply |-> current.value]

\* FixedWindowLimiter.Allow(key) over the Redis store: RedisStore.Increment
\* runs the script with the window in milliseconds and returns its integer,
\* or returns 0 and the error err of a run that did not reach the server.
FixedWindowAllowRedis(key, err) ==
    LET run == IncrementScript(redisCounters[key], now, Milliseconds(window))
        count == IF err # NoError THEN 0 ELSE run.reply
        after == IF err # NoError THEN redisCounters[key] ELSE run.entry
    IN  /\ redisCounters' = [redisCounters EXCEPT ![key] = after]
        /\ redisLog' = Append(redisLog,
              [op |-> "Increment", key |-> key, t |-> now, err |-> err,
               count |-> count, after |-> after,
               allow |-> FixedWindowAllowReturn(count, err, now, limit,
                                                window)])
        /\ UNCHANGED <<now, config, fixedWindowEntries, tokenBucketEntries,
                       tickPending, goroutines, lifecycle, fwLog, tbLog,
                       integration, inflight, redisBuckets>>

\* The least time to live of a bucket, in seconds.
MinTTLSeconds == 10

\* math.ceil((burst / rate) * 2), at least 10: the time to live of a bucket in
\* seconds, the rate r being units of a token per tick.
BucketTTL(r, b) ==
    LET ttl == (2 * b * TokScale + r * TicksPerSecond - 1)
                   \div (r * TicksPerSecond)
    IN  IF ttl < MinTTLSeconds THEN MinTTLSeconds ELSE ttl

\* Mutant: a run that denies leaves the time to live of the key alone.
TakeTokenScript_DenyKeepsTTL(e, t, r, b) ==
    LET live == RedisAlive(e, t)
        loaded == IF live THEN [tokens |-> e.tokens,
                                last_updated |-> e.last_updated]
                  ELSE [tokens |-> b * TokScale, last_updated |-> t]
        elapsed == t - loaded.last_updated
        refilled == IF elapsed > 0 THEN loaded.tokens + elapsed * r
                    ELSE loaded.tokens
        clamped == IF refilled > b * TokScale THEN b * TokScale ELSE refilled
        allowed == clamped >= TokScale
        tokens == IF allowed THEN clamped - TokScale ELSE clamped
    IN  [entry |-> [found |-> TRUE, tokens |-> tokens, last_updated |-> t,
                    ttl |-> TRUE,
                    expireAt |-> IF allowed \/ ~live
                                 THEN t + BucketTTL(r, b) * TicksPerSecond
                                 ELSE e.expireAt],
         loaded |-> loaded,
         reply |-> ListReply(<<IntValue(IF allowed THEN 1 ELSE 0),
                               NumeralValue(LuaToString(tokens))>>)]

\* takeTokenLua run by the server in one piece with ARGV = rate, burst, now:
\* HGETALL, the refill over the time since last_updated, the clamp to burst,
\* the take of one token if there is one, HSET of both fields, EXPIRE.  The
\* new state of the key, what the script started from, and its reply.
TakeTokenScript(e, t, r, b) ==
    LET live == RedisAlive(e, t)
        loaded == IF live THEN [tokens |-> e.tokens,
                                last_updated |-> e.last_updated]
                  ELSE [tokens |-> b * TokScale, last_updated |-> t]
        elapsed == t - loaded.last_updated
        refilled == IF elapsed > 0 THEN loaded.tokens + elapsed * r
                    ELSE loaded.tokens
        clamped == IF refilled > b * TokScale THEN b * TokScale ELSE refilled
        allowed == clamped >= TokScale
        tokens == IF allowed THEN clamped - TokScale ELSE clamped
    IN  [entry |-> [found |-> TRUE, tokens |-> tokens, last_updated |-> t,
                    ttl |-> TRUE,
                    expireAt |-> t + BucketTTL(r, b) * TicksPerSecond],
         loaded |-> loaded,
         reply |-> ListReply(<<IntValue(IF allowed THEN 1 ELSE 0),
                               NumeralValue(LuaToString(tokens))>>)]

\* TokenBucketLimiter.Allow(key) over the Redis store, the script running on
\* the server: TakeToken passes rate, burst and its clock, parses the reply
\* and Allow builds its Result from what TakeToken returns.
TokenBucketAllowRedisScript(key) ==
    LET run == TakeTokenScript(redisBuckets[key], now, rate, burst)
        ret == RedisTakeTokenReturn(run.reply, NoError)
    IN  /\ redisBuckets' = [redisBuckets EXCEPT ![key] = run.entry]
        /\ redisLog' = Append(redisLog,
              [op |-> "TakeTokenScript", key |-> key, t |-> now,
               loaded |-> run.loaded, after |-> run.entry, ret |-> ret,
               allow |-> TokenBucketAllowReturn(ret.allowed, ret.tokens,
                                                ret.err, rate, burst)])
        /\ UNCHANGED <<now, config, fixedWindowEntries, tokenBucketEntries,
                       tickPending, goroutines, lifecycle, fwLog, tbLog,
                       integration, inflight, redisCounters>>

\* One TakeToken call on each store for the same key at the same instant:
\* MemoryStore.TakeToken on the map and RedisStore.TakeToken on the server,
\* with the rate and the burst of the configuration.
TakeTokenOnBoth(key) ==
    LET r == TakeToken(tokenBucketEntries[key], now, rate, burst)
        run == TakeTokenScript(redisBuckets[key], now, rate, burst)
        ret == RedisTakeTokenReturn(run.reply, NoError)
    IN  /\ tokenBucketEntries' = [tokenBucketEntries EXCEPT ![key] = r.entry]
        /\ redisBuckets' = [redisBuckets EXCEPT ![key] = run.entry]
        /\ redisLog' = Append(redisLog,
              [op |-> "TakeTokenOnBoth", key |-> key, t |-> now,
               memory |-> [allowed |-> r.allowed, tokens |-> r.tokens],
               redis |-> ret])
        /\ UNCHANGED <<now, config, fixedWindowEntries, tickPending,
                       goroutines, lifecycle, fwLog, tbLog, integration,
                       inflight, redisCounters>>

\* The replies of the token-bucket script that the model draws from: the two
\* shapes the script of NewRedis produces, and replies of other shapes.
ScriptReplies ==
    {ListReply(<<IntValue(1), StringValue("1")>>),
     ListReply(<<IntValue(0), StringValue("0")>>),
     ScalarReply(IntValue(1)), ScalarReply(StringValue("OK")),
     ScalarReply(NilValue),
     ListReply(<<>>), ListReply(<<IntValue(1)>>),
     ListReply(<<IntValue(1), StringValue("1"), IntValue(7)>>),
     ListReply(<<StringValue("1"), StringValue("1")>>),
     ListReply(<<NilValue, StringValue("1")>>),
     ListReply(<<IntValue(1), IntValue(1)>>),
     ListReply(<<IntValue(1), NilValue>>),
     ListReply(<<IntValue(1), StringValue("abc")>>),
     ListReply(<<IntValue(0), StringValue("")>>)}

\* What the run of the script returns: a reply, or nil and an error of the
\* transport or of the server.
RunReturns ==
    {[res |-> r, err |-> NoError] : r \in ScriptReplies}
        \cup {[res |-> ScalarReply(NilValue), err |-> e] : e \in StoreErrors}

\* TokenBucketLimiter.Allow(key) over the Redis store, the run of the script
\* returning run: TakeToken parses the reply and Allow builds its Result from
\* what TakeToken returns; a panic of TakeToken unwinds through Allow, which
\* then returns nothing (allow is the zero Result in the history).
TokenBucketAllowRedis(key, run) ==
    LET ret == RedisTakeTokenReturn(run.res, run.err)
    IN  /\ redisLog' = Append(redisLog,
              [op |-> "TakeToken", key |-> key, t |-> now, run |-> run,
               ret |-> ret,
               allow |-> IF ret.panic
                         THEN [res |-> zeroResult, err |-> NoError]
                         ELSE TokenBucketAllowReturn(ret.allowed, ret.tokens,
                                                     ret.err, rate, burst)])
        /\ UNCHANGED <<now, config, fixedWindowEntries, tokenBucketEntries,
                       tickPending, goroutines, lifecycle, fwLog, tbLog,
                       integration, inflight, redisServer>>

\* ------------------------------------- Allow, one step of a goroutine each
\* A goroutine enters FixedWindowLimiter.Allow and reaches s.mu.Lock().
CallAllow(p) ==
    /\ callers[p].pc = "idle"
    /\ callers' = [callers EXCEPT ![p].pc = "lock"]
    /\ UNCHANGED <<lifecycle, integration,
                   now, config, remote, fixedWindowEntries, tokenBucketEntries,
                   tickPending, mu, fwLog, tbLog>>

\* Mutant: the mutex is taken whoever holds it.
Lock_NoMutex(p) ==
    /\ callers[p].pc = "lock"
    /\ mu' = p
    /\ callers' = [callers EXCEPT ![p].pc = "lookup"]
    /\ UNCHANGED <<lifecycle, integration,
                   now, config, remote, fixedWindowEntries, tokenBucketEntries,
                   tickPending, fwLog, tbLog>>

\* s.mu.Lock(): blocks while another goroutine holds the mutex.
Lock(p) ==
    /\ callers[p].pc = "lock"
    /\ mu = 0
    /\ mu' = p
    /\ callers' = [callers EXCEPT ![p].pc = "lookup"]
    /\ UNCHANGED <<lifecycle, integration,
                   now, config, remote, fixedWindowEntries, tokenBucketEntries,
                   tickPending, fwLog, tbLog>>

\* e, found := s.fixedWindowEntries[key], and the expiry check.
Lookup(p) ==
    /\ callers[p].pc = "lookup"
    /\ LET e == fixedWindowEntries[SharedKey]
       IN  callers' = [callers EXCEPT ![p].pc = "write",
                                      ![p].checked = now,
                                      ![p].e = e,
                                      ![p].present = e.found,
                                      ![p].found = e.found /\ ~(now > e.expiresAt)]
    /\ UNCHANGED <<lifecycle, integration,
                   now, config, remote, fixedWindowEntries, tokenBucketEntries,
                   tickPending, mu, fwLog, tbLog>>

\* The new value of e, s.fixedWindowEntries[key] = e, and return e.count.
Write(p) ==
    /\ callers[p].pc = "write"
    /\ LET ne == IF ~callers[p].found THEN fixedWindowEntry(1, now + window)
                 ELSE [callers[p].e EXCEPT !.count = @ + 1]
       IN  /\ fixedWindowEntries' = [fixedWindowEntries EXCEPT ![SharedKey] = ne]
           /\ callers' = [callers EXCEPT ![p].pc = "unlock",
                                          ![p].e = ne,
                                          ![p].count = ne.count]
    /\ UNCHANGED <<lifecycle, integration,
                   now, config, remote, tokenBucketEntries, tickPending, mu, fwLog, tbLog>>

\* Mutant: Increment returns without releasing the mutex.
Unlock_KeepsMutex(p) ==
    /\ callers[p].pc = "unlock"
    /\ callers' = [callers EXCEPT ![p].pc = "result"]
    /\ UNCHANGED <<lifecycle, integration,
                   now, config, remote, fixedWindowEntries, tokenBucketEntries,
                   tickPending, mu, fwLog, tbLog>>

\* The deferred s.mu.Unlock().
Unlock(p) ==
    /\ callers[p].pc = "unlock"
    /\ mu' = 0
    /\ callers' = [callers EXCEPT ![p].pc = "result"]
    /\ UNCHANGED <<lifecycle, integration,
                   now, config, remote, fixedWindowEntries, tokenBucketEntries,
                   tickPending, fwLog, tbLog>>

\* Back in Allow: the Result is built from the count and returned.
Return(p) ==
    /\ callers[p].pc = "result"
    /\ callers' = [callers EXCEPT ![p].pc = "done"]
    /\ fwLog' = Append(fwLog, [key |-> SharedKey, t |-> callers[p].checked,
                               count |-> callers[p].count,
                               cancelled |-> FALSE,
                               found |-> callers[p].present,
                               expiresAt |-> callers[p].e.expiresAt,
                               res |-> FixedWindowResult(callers[p].count, now,
                                                         limit, window)])
    /\ UNCHANGED <<lifecycle, integration,
                   now, config, remote, fixedWindowEntries, tokenBucketEntries,
                   tickPending, mu, tbLog>>

\* -------------------------------------------------------- specifications
\* Both limiters over one store, the reaper running.
Next ==
    \/ Tick(MaxTimeBoth)
    \/ NumCalls < MaxCallsBoth /\ \E k \in Keys : FixedWindowAllow(k)
    \/ NumCalls < MaxCallsBoth /\ \E k \in Keys : TokenBucketAllow(k)
    \/ Sweep

InitBoth == Init /\ cleanupInterval = 1

Spec == InitBoth /\ [][Next]_vars

\* The fixed-window limiter alone, the reaper running.
NextFW ==
    \/ Tick(MaxTimeFW)
    \/ NumCalls < MaxCalls /\ \E k \in Keys : FixedWindowAllow(k)
    \/ Sweep

InitFW == Init /\ cleanupInterval = 1 /\ rate = 1 /\ burst = 1

SpecFW == InitFW /\ [][NextFW]_vars

\* The token-bucket limiter alone on one key, over a horizon long enough for
\* the key to go stale, the reaper running.
NextTB ==
    \/ Tick(MaxTime)
    \/ NumCalls < MaxCalls /\ TokenBucketAllow("u1")
    \/ Sweep

InitTB == Init /\ cleanupInterval = 1 /\ limit = 1 /\ window = 2

SpecTB == InitTB /\ [][NextTB]_vars

\* The same with a bucket of positive capacity.
InitTB1 == InitTB /\ burst >= 1

SpecTB1 == InitTB1 /\ [][NextTB]_vars

\* The same at rates whose time per token is truncated to a tick.
InitTBFrac ==
    /\ InitStore
    /\ limit = 1 /\ window = 2
    /\ rate \in FractionalRates /\ burst \in Limits \ {0}
    /\ cleanupInterval = 1
    /\ reaper = "running"

SpecTBFrac == InitTBFrac /\ [][NextTB]_vars

\* The fixed-window limiter with a positive limit.
InitFW1 == InitFW /\ limit >= 1

SpecFW1 == InitFW1 /\ [][NextFW]_vars

\* The rollover scenario: NewFixedWindow(memStore, 2, 1s) called on one key,
\* a tick being 0.1 s.
NextRollover ==
    \/ Tick(MaxTime)
    \/ NumCalls < MaxCalls /\ FixedWindowAllow("u1")
    \/ Sweep

InitRollover ==
    /\ InitStore
    /\ limit = 2 /\ window = 10
    /\ rate = 1 /\ burst = 1 /\ cleanupInterval = 1
    /\ reaper = "running"

SpecRollover == InitRollover /\ [][NextRollover]_vars

\* Goroutines calling the fixed-window limiter concurrently on one key, the
\* reaper running.
NextConc ==
    \/ Tick(MaxTimeConc)
    \/ \E p \in Procs : CallAllow(p)
    \/ \E p \in Procs : Lock(p)
    \/ \E p \in Procs : Lookup(p)
    \/ \E p \in Procs : Write(p)
    \/ \E p \in Procs : Unlock(p)
    \/ \E p \in Procs : Return(p)
    \/ Sweep

InitConc == Init /\ cleanupInterval = 1 /\ rate = 1 /\ burst = 1

SpecConc == InitConc /\ [][NextConc]_vars

\* ------------------------------ the mutex among callers and the reaper
\* The holder of the mutex when it is the goroutine of runCleanup.
ReaperGoroutine == NumProcs + 1

\* A goroutine enters TokenBucketLimiter.Allow and reaches s.mu.Lock() of
\* MemoryStore.TakeToken.
CallTakeToken(p) ==
    /\ callers[p].pc = "idle"
    /\ callers' = [callers EXCEPT ![p].pc = "lockTake"]
    /\ UNCHANGED <<lifecycle, integration,
                   now, config, remote, fixedWindowEntries, tokenBucketEntries,
                   tickPending, mu, fwLog, tbLog>>

\* s.mu.Lock() of TakeToken: blocks while another goroutine holds the mutex.
LockTakeToken(p) ==
    /\ callers[p].pc = "lockTake"
    /\ mu = 0
    /\ mu' = p
    /\ callers' = [callers EXCEPT ![p].pc = "take"]
    /\ UNCHANGED <<lifecycle, integration,
                   now, config, remote, fixedWindowEntries, tokenBucketEntries,
                   tickPending, fwLog, tbLog>>

\* The body of TakeToken under the mutex, up to one of its three returns.
TakeTokenLocked(p) ==
    /\ callers[p].pc = "take"
    /\ mu = p
    /\ LET e == tokenBucketEntries[SharedKey]
           r == TakeToken(e, now, rate, burst)
       IN  /\ tokenBucketEntries' =
                 [tokenBucketEntries EXCEPT ![SharedKey] = r.entry]
           /\ tbLog' = Append(tbLog,
                 [op |-> "take", key |-> SharedKey, t |-> now,
                  found |-> e.found, had |-> Held(e, now, rate, burst),
                  tokens |-> r.tokens,
                  res |-> TokenBucketResult(r.allowed, r.tokens, rate, burst),
                  lastUpdated |-> r.entry.lastUpdated, cancelled |-> FALSE])
    /\ callers' = [callers EXCEPT ![p].pc = "unlockTake"]
    /\ UNCHANGED <<lifecycle, integration,
                   now, config, remote, fixedWindowEntries, tickPending, mu,
                   fwLog>>

\* The deferred s.mu.Unlock() of TakeToken, run as it returns.
UnlockTakeToken(p) ==
    /\ callers[p].pc = "unlockTake"
    /\ mu' = 0
    /\ callers' = [callers EXCEPT ![p].pc = "done"]
    /\ UNCHANGED <<lifecycle, integration,
                   now, config, remote, fixedWindowEntries, tokenBucketEntries,
                   tickPending, fwLog, tbLog>>

\* runCleanup's select takes <-ticker.C and s.mu.Lock() succeeds.
ReaperLock ==
    /\ reaper = "running"
    /\ tickPending
    /\ mu = 0
    /\ mu' = ReaperGoroutine
    /\ tickPending' = FALSE
    /\ UNCHANGED <<lifecycle, integration, now, config, remote,
                   fixedWindowEntries, tokenBucketEntries, callers, fwLog,
                   tbLog>>

\* The two loops of the sweep under the mutex, and s.mu.Unlock().
ReaperSweep ==
    /\ mu = ReaperGoroutine
    /\ mu' = 0
    /\ fixedWindowEntries' = SweepFixedWindow(fixedWindowEntries, now)
    /\ tokenBucketEntries' =
          SweepTokenBucket(tokenBucketEntries, now, cleanupInterval)
    /\ tbLog' = tbLog \o Evictions(Keys, now)
    /\ lateSweeps' = IF ctxDone THEN lateSweeps + 1 ELSE lateSweeps
    /\ UNCHANGED <<ctxDone, reaper, integration, now, config, remote,
                   tickPending, callers, fwLog>>

\* runCleanup returns from its select, where it holds no mutex.
StopAtSelect == mu # ReaperGoroutine /\ Stop

\* A step of a goroutine that the scheduler runs when it can run: a caller
\* past its call, or the reaper inside its sweep.
Scheduled ==
    \/ \E p \in Procs : Lock(p) \/ Lookup(p) \/ Write(p) \/ Unlock(p)
                             \/ Return(p)
    \/ \E p \in Procs : LockTakeToken(p) \/ TakeTokenLocked(p)
                             \/ UnlockTakeToken(p)
    \/ ReaperSweep

\* Goroutines calling either limiter on one key, one call each, the reaper
\* sweeping and the context of the store being cancelled at some instant.
NextMutex ==
    \/ Tick(MaxTimeMutex)
    \/ \E p \in Procs : CallAllow(p)
    \/ \E p \in Procs : CallTakeToken(p)
    \/ \E p \in Procs : Lock(p)
    \/ \E p \in Procs : Lookup(p)
    \/ \E p \in Procs : Write(p)
    \/ \E p \in Procs : Unlock(p)
    \/ \E p \in Procs : Return(p)
    \/ \E p \in Procs : LockTakeToken(p)
    \/ \E p \in Procs : TakeTokenLocked(p)
    \/ \E p \in Procs : UnlockTakeToken(p)
    \/ ReaperLock
    \/ ReaperSweep
    \/ Cancel
    \/ StopAtSelect

InitMutex ==
    /\ InitStore
    /\ limit = 1 /\ window = 2
    /\ rate = 1 /\ burst = 1
    /\ cleanupInterval = 1
    /\ reaper = "running"

\* The scheduler of Go runs a goroutine that can run, and sync.Mutex hands
\* the mutex to a goroutine that waits for it.
SpecMutex == InitMutex /\ [][NextMutex]_vars /\ WF_vars(Scheduled)

\* Both limiters over a store whose every operation fails.
NextStoreError ==
    \/ Tick(MaxTimeBoth)
    \/ Len(errLog) < MaxFailures /\
          \E k \in Keys : \E err \in StoreErrors : FixedWindowAllowStoreError(k, err)
    \/ Len(errLog) < MaxFailures /\
          \E k \in Keys : \E err \in StoreErrors : TokenBucketAllowStoreError(k, err)
    \/ Sweep

InitStoreError == Init /\ cleanupInterval = 1 /\ window = 2 /\ rate = 1

SpecStoreError == InitStoreError /\ [][NextStoreError]_vars

\* Both limiters called on one key with contexts cancelled or not.
NextCtx ==
    \/ Tick(MaxTimeBoth)
    \/ NumCalls < MaxCallsBoth /\
          \E c \in BOOLEAN : FixedWindowAllowCtx(c, SharedKey)
    \/ NumCalls < MaxCallsBoth /\
          \E c \in BOOLEAN : TokenBucketAllowCtx(c, SharedKey)
    \/ Sweep

InitCtx == Init /\ cleanupInterval = 1 /\ window = 2 /\ rate = 1

SpecCtx == InitCtx /\ [][NextCtx]_vars

\* Both limiters on one key, the context of the store being cancelled at some
\* instant.
NextCancel ==
    \/ Tick(MaxTimeBoth)
    \/ NumCalls < MaxCallsBoth /\ FixedWindowAllow(SharedKey)
    \/ NumCalls < MaxCallsBoth /\ TokenBucketAllow(SharedKey)
    \/ Sweep
    \/ Cancel
    \/ Stop

InitCancel == Init /\ cleanupInterval = 1 /\ window = 2

SpecCancel == InitCancel /\ [][NextCancel]_vars

\* The same, the goroutine of the reaper being scheduled again and again and its
\* select choosing among the ready cases at random.
FairSpecCancel == InitCancel /\ [][NextCancel]_vars /\ WF_vars(Stop)

\* The fixed-window limiter on one key over reapers of several periods, the
\* goroutine of the reaper being scheduled again and again.
NextReap ==
    \/ Tick(MaxTimeFW)
    \/ NumCalls < MaxCalls /\ FixedWindowAllow(SharedKey)
    \/ Sweep

InitReap ==
    /\ InitStore
    /\ limit = 1 /\ window \in Windows
    /\ rate = 1 /\ burst = 1
    /\ cleanupInterval \in ReaperIntervals
    /\ reaper = "running"

SpecReap == InitReap /\ [][NextReap]_vars /\ WF_vars(Sweep)

\* Requests served by the two middlewares on one key.
NextHTTP ==
    \/ Tick(MaxTimeBoth)
    \/ Len(httpLog) < MaxRequests /\
          \E keyRet \in KeyFuncReturns : \E l \in Limiters :
              \E f \in FailingAllowReturns : Middleware(keyRet, l, f)
    \/ Len(httpLog) < MaxRequests /\
          \E keyRet \in KeyFuncReturns : \E l \in Limiters :
              \E f \in FailingAllowReturns : RateLimiter(keyRet, l, f)
    \/ Sweep

InitHTTP ==
    Init /\ cleanupInterval = 1 /\ window = 2 /\ rate = 1 /\ burst = limit

SpecHTTP == InitHTTP /\ [][NextHTTP]_vars

\* Requests served by the two middlewares over a Limiter that returns any
\* Result, the error handler being the default one of NewConfig.
NextRetryAfter ==
    \/ Tick(MaxTimeBoth)
    \/ Len(httpLog) < MaxRequests /\
          \E f \in CustomAllowReturns :
              Middleware([key |-> SharedKey, err |-> NoError], "failing", f)
    \/ Len(httpLog) < MaxRequests /\
          \E f \in CustomAllowReturns :
              RateLimiter([key |-> SharedKey, err |-> NoError], "failing", f)

InitRetryAfter ==
    Init /\ cleanupInterval = 0 /\ limit = 1 /\ window = 2 /\ rate = 1
         /\ burst = 1

SpecRetryAfter == InitRetryAfter /\ [][NextRetryAfter]_vars

\* Token-bucket Allow calls over the Redis store, the script's reply being
\* whatever the server or the transport hands back.
NextRedisReply ==
    Len(redisLog) < MaxReplies /\
        \E k \in Keys : \E run \in RunReturns : TokenBucketAllowRedis(k, run)

InitRedisReply ==
    Init /\ cleanupInterval = 0 /\ limit = 1 /\ window = 2 /\ rate = 1
         /\ burst = 2

SpecRedisReply == InitRedisReply /\ [][NextRedisReply]_vars

\* Requests served one after the other by the two middlewares over a
\* fixed-window limiter, time passing between Allow and the headers.
NextHeaders ==
    \/ Tick(MaxTimeFW)
    \/ Len(httpLog) < MaxRequests /\
          \E mw \in Middlewares : \E k \in Keys : BeginRequest(mw, k)
    \/ FinishRequest

InitHeaders == Init /\ cleanupInterval = 0 /\ rate = 1 /\ burst = limit

SpecHeaders == InitHeaders /\ [][NextHeaders]_vars

\* Both limiters over one store whose reaper runs, over a horizon long enough
\* for a bucket to go stale: fixed-window calls on every key, token-bucket
\* calls on one.
NextSweep ==
    \/ Tick(MaxTime)
    \/ NumCalls < MaxCallsBoth /\ \E k \in Keys : FixedWindowAllow(k)
    \/ NumCalls < MaxCallsBoth /\ TokenBucketAllow(SharedKey)
    \/ Sweep

InitSweep ==
    Init /\ cleanupInterval = 1 /\ limit = 1 /\ window = 2 /\ rate = 1
         /\ burst = 1

SpecSweep == InitSweep /\ [][NextSweep]_vars

\* Both limiters over a store created with a cleanupInterval of either sign,
\* whose context may be cancelled.
NextNoReaper ==
    \/ Tick(MaxTimeBoth)
    \/ NumCalls < MaxCallsBoth /\ \E k \in Keys : FixedWindowAllow(k)
    \/ NumCalls < MaxCallsBoth /\ \E k \in Keys : TokenBucketAllow(k)
    \/ Sweep
    \/ Cancel
    \/ Stop

InitNoReaper ==
    /\ InitStore
    /\ limit = 1 /\ window = 2 /\ rate = 1 /\ burst = 1
    /\ cleanupInterval \in AnyIntervals
    /\ reaper = IF ReaperPeriod(cleanupInterval) > 0 THEN "running" ELSE "none"

SpecNoReaper == InitNoReaper /\ [][NextNoReaper]_vars

\* Fixed-window Allow calls over the Redis store, a tick being half a
\* millisecond.
NextRedisIncrement ==
    \/ Tick(MaxTimeFW)
    \/ Len(redisLog) < MaxCallsBoth /\
          \E k \in Keys : \E err \in {NoError} \cup StoreErrors :
              FixedWindowAllowRedis(k, err)

InitRedisIncrement ==
    /\ InitStore
    /\ limit = 1 /\ window \in RedisWindows
    /\ rate = 1 /\ burst = 1 /\ cleanupInterval = 0
    /\ reaper = "none"

SpecRedisIncrement == InitRedisIncrement /\ [][NextRedisIncrement]_vars

\* Token-bucket Allow calls over the Redis store, up to an instant past the
\* time to live of an idle bucket.
NextRedisTake ==
    \/ Tick(MaxTimeRedis)
    \/ Len(redisLog) < MaxCallsBoth /\
          \E k \in Keys : TokenBucketAllowRedisScript(k)

InitRedisTake ==
    /\ InitStore
    /\ limit = 1 /\ window = 1
    /\ rate \in RedisRates /\ burst \in RedisBursts /\ cleanupInterval = 0
    /\ reaper = "none"

SpecRedisTake == InitRedisTake /\ [][NextRedisTake]_vars

\* The same timed TakeToken calls on the in-memory store and on the Redis
\* store, no reaper and a horizon within the time to live of a bucket.
NextBothStores ==
    \/ Tick(MaxTimeFW)
    \/ Len(redisLog) < MaxCallsBoth /\ \E k \in Keys : TakeTokenOnBoth(k)

InitBothStores ==
    /\ InitStore
    /\ limit = 1 /\ window = 1
    /\ rate \in Rates /\ burst \in Limits /\ cleanupInterval = 0
    /\ reaper = "none"

SpecBothStores == InitBothStores /\ [][NextBothStores]_vars

\* ================================================================ claims
\* The calls of one key, in the order they were made.
FWCalls(k) == LET OfKey(e) == e.key = k IN SelectSeq(fwLog, OfKey)
TBCalls(k) == LET OfKey(e) == e.op = "take" /\ e.key = k IN SelectSeq(tbLog, OfKey)

\* The allowed fixed-window calls of key k made at an instant of [from, to).
FWAllowedIn(k, from, to) ==
    {i \in DOMAIN fwLog : /\ fwLog[i].key = k /\ fwLog[i].res.allowed
                          /\ from <= fwLog[i].t /\ fwLog[i].t < to}

\* ---------------------------------------------------------------- C1
\* C1 (as claimed): for every key, at most limit calls return allowed=true in
\* any window [j*window, (j+1)*window) of the window grid.
C1_AlignedWindowAtMostLimit ==
    \A k \in Keys : \A j \in 0..now :
        Cardinality(FWAllowedIn(k, j * window, (j + 1) * window)) <= limit

\* C1 (amended): for every key, at most limit calls return allowed=true during
\* the life [created, created + window] of one store entry, and at most
\* max(0, 2*limit - 1) in any window of the window grid.
C1_EntryWindowAtMostLimit ==
    \A k \in Keys :
        /\ \A i \in DOMAIN fwLog :
              fwLog[i].key = k /\ fwLog[i].count = 1 =>
                Cardinality({n \in FWAllowedIn(k, fwLog[i].t, fwLog[i].t + window + 1) :
                                n >= i}) <= limit
        /\ \A j \in 0..now :
              Cardinality(FWAllowedIn(k, j * window, (j + 1) * window))
                  <= Max(0, 2 * limit - 1)

\* Witness of C1: one window of the grid holds 2*limit - 1 > limit allowed calls.
C1_Witness ==
    \E k \in Keys : \E j \in 0..now :
        /\ limit = 2
        /\ Cardinality(FWAllowedIn(k, j * window, (j + 1) * window)) = 3

\* ---------------------------------------------------------------- C3
\* The results returned so far by the two limiters.
FWResults == {fwLog[i].res : i \in DOMAIN fwLog}
TBResults == {tbLog[i].res : i \in Takes}

C4_RemainingInRange ==
    \A r \in FWResults \cup TBResults : 0 <= r.remaining /\ r.remaining <= r.limit

\* Witness of C4: both clamps were needed, a count above the limit and a
\* bucket holding less than zero tokens.
C4_Witness ==
    /\ \E i \in DOMAIN fwLog : fwLog[i].count > limit /\ fwLog[i].res.remaining = 0
    /\ \E i \in Takes : tbLog[i].tokens < 0 /\ tbLog[i].res.remaining = 0

\* ---------------------------------------------------------------- C7
\* C7: on a fresh store, as long as the calls of a key fall within one window
\* of its first call, the i-th of them returns allowed = (i <= limit),
\* remaining = max(0, limit - i) and limit = limit.
C7_BurstWithinWindow ==
    \A k \in Keys :
        LET s == FWCalls(k)
        IN  \A i \in DOMAIN s :
              s[i].t <= s[1].t + window =>
                /\ s[i].res.allowed = (i <= limit)
                /\ s[i].res.remaining = Max(0, limit - i)
                /\ s[i].res.limit = limit

\* Witness of C7: four calls of one key in one window of the grid, limit = 2,
\* the first two admitted and the last two refused.
C7_Witness ==
    \E k \in Keys :
        LET s == FWCalls(k)
        IN  /\ limit = 2 /\ Len(s) = 4
            /\ Truncate(s[4].t, window) = Truncate(s[1].t, window)
            /\ s[2].res.allowed /\ ~s[3].res.allowed /\ ~s[4].res.allowed

\* ---------------------------------------------------------------- C9
\* The instants of the calls made so far, a tick being 0.1 s.
FWTimes == [i \in DOMAIN fwLog |-> fwLog[i].t]

\* C9 (as claimed): with limit 2 and a window of 1 s, two calls at 0.1 s are
\* admitted, a call at 0.2 s is refused, and a call at 1.1 s is admitted with
\* remaining = 1.
C9_RolloverAtExpiry ==
    FWTimes = <<1, 1, 2, 11>> =>
        /\ fwLog[1].res.allowed /\ fwLog[2].res.allowed
        /\ ~fwLog[3].res.allowed
        /\ fwLog[4].res.allowed /\ fwLog[4].res.remaining = 1

\* C9 (amended): two calls at 0.1 s are admitted and a call at 0.2 s is
\* refused; a fourth call made at 1.1 s or before, the instant the entry
\* expires, is still counted in the old entry and refused with remaining = 0,
\* and a fourth call made after 1.1 s is admitted with remaining = 1.
C9_RolloverAfterExpiry ==
    /\ Len(fwLog) >= 3 /\ SubSeq(FWTimes, 1, 3) = <<1, 1, 2>> =>
          /\ fwLog[1].res.allowed /\ fwLog[2].res.allowed
          /\ ~fwLog[3].res.allowed
    /\ Len(fwLog) = 4 /\ SubSeq(FWTimes, 1, 3) = <<1, 1, 2>> =>
          /\ fwLog[4].res.allowed = (fwLog[4].t > 11)
          /\ fwLog[4].res.remaining = (IF fwLog[4].t > 11 THEN 1 ELSE 0)

\* Witness of C9: the fourth call is made one tick after the entry expired.
C9_Witness ==
    /\ FWTimes = <<1, 1, 2, 12>>
    /\ fwLog[4].res.allowed /\ fwLog[4].count = 1

\* --------------------------------------------------------------- C10
\* The pairs of successive calls of one key, the first of them refused.
RefusedThenNext(k) ==
    LET s == FWCalls(k)
    IN  {<<s[i], s[i + 1]>> : i \in {n \in 1..(Len(s) - 1) : ~s[n].res.allowed}}

TBAllowedIn(k, from, to) ==
    {i \in Takes : /\ tbLog[i].key = k /\ tbLog[i].res.allowed
                   /\ from <= tbLog[i].t /\ tbLog[i].t <= to}

\* The ceiling of the tokens refilled in T ticks.
CeilRefill(T) == (rate * T + TokScale - 1) \div TokScale

\* C2: for every key, at most burst + ceil(rate * T) calls return allowed=true
\* in any interval of length T, the reaper running.
C2_TokenBucketRateBound ==
    \A k \in Keys : \A from \in 0..now : \A to \in from..now :
        Cardinality(TBAllowedIn(k, from, to)) <= burst + CeilRefill(to - from)

\* ---------------------------------------------------------------- C6
\* C6: once the stored bucket of a key is seen to hold less than 2 tokens, no
\* two TakeToken calls of that key made at the same instant both return
\* allowed=true, whatever sweeps of the reaper run among them.
C6_NeverBothAllowed ==
    \A i, j, n \in DOMAIN tbLog :
        /\ i <= j /\ j < n
        /\ tbLog[i].key = tbLog[j].key /\ tbLog[j].key = tbLog[n].key
        /\ tbLog[i].t = tbLog[j].t /\ tbLog[j].t = tbLog[n].t
        /\ tbLog[i].found /\ tbLog[i].had < 2 * TokScale
        /\ tbLog[j].op = "take" /\ tbLog[n].op = "take"
        => ~(tbLog[j].res.allowed /\ tbLog[n].res.allowed)

\* ---------------------------------------------------------------- C8
\* The calls made back to back with call i, up to call i: those from first on,
\* all at one instant.
BackToBack(s, first, i) ==
    first <= i /\ i <= Len(s) /\ \A j \in first..i : s[j].t = s[first].t

\* C8: on a fresh store, of burst + 1 calls made back to back the first burst
\* are admitted with remaining burst - 1, ..., 0 and the last is refused with
\* resetAfter = 1/rate; of the calls made back to back d ticks later, exactly
\* the first floor(min(burst, d * rate)) are admitted.
C8_BurstThenSustained ==
    LET s == TBCalls("u1")
        B == burst
    IN  /\ \A i \in DOMAIN s :
              BackToBack(s, 1, i) =>
                /\ i <= B => s[i].res.allowed /\ s[i].res.remaining = B - i
                /\ i = B + 1 => /\ ~s[i].res.allowed
                                /\ s[i].res.resetAfter * rate = TokScale
        /\ \A i \in DOMAIN s :
              /\ BackToBack(s, 1, B + 1) /\ BackToBack(s, B + 2, i)
              /\ s[B + 2].t > s[1].t
              => (s[i].res.allowed
                    = ((i - B - 1) * TokScale
                         <= Min(B * TokScale, (s[B + 2].t - s[1].t) * rate)))

\* ---------------------------------------------------------------- C5
\* The goroutines that have called Allow, those whose request is counted, and
\* those that have returned.
Called == {p \in Procs : callers[p].pc # "idle"}
Counted == {p \in Procs : callers[p].pc \in {"unlock", "result", "done"}}
Returned == {p \in Procs : callers[p].pc = "done"}

\* The requests counted so far fall within one window: each was checked no
\* later than the expiry of the entry the first of them created.
WithinOneWindow ==
    \A p, q \in Counted : callers[p].checked <= callers[q].e.expiresAt

\* C5: when the concurrent calls of one key fall within one window, under
\* every interleaving the counts returned are the values 1..N, each returned
\* once, N being the number of requests counted, and once all the calls made
\* have returned exactly min(N, limit) of them were admitted.
C5_CountsOneToN ==
    WithinOneWindow =>
        /\ {callers[p].count : p \in Counted} = 1..Cardinality(Counted)
        /\ \A p, q \in Counted : callers[p].count = callers[q].count => p = q
        /\ Returned = Called =>
              Cardinality({i \in DOMAIN fwLog : fwLog[i].res.allowed})
                  = Min(Cardinality(Called), limit)

\* Witness of C5: two goroutines have called and returned within one window
\* with limit 1, and the first to return got the last count.
C5_Witness ==
    /\ WithinOneWindow /\ limit = 1
    /\ Cardinality(Called) = 2 /\ Returned = Called
    /\ fwLog[1].count = 2 /\ ~fwLog[1].res.allowed
    /\ Cardinality({i \in DOMAIN fwLog : fwLog[i].res.allowed}) = 1

\* --------------------------------------------------------------- C11
\* C11: a refused Allow at t reports resetAfter = (1 - tokens)/rate, to the
\* tick, tokens being the refilled content of the bucket, and the next Allow of
\* the key, if made at t + resetAfter, is admitted.
C11_AdmittedAtTokenReset ==
    LET s == TBCalls("u1")
    IN  \A i \in 1..(Len(s) - 1) :
          ~s[i].res.allowed =>
            /\ s[i].res.resetAfter * rate <= TokScale - s[i].tokens
            /\ TokScale - s[i].tokens < (s[i].res.resetAfter + 1) * rate
            /\ s[i + 1].t = s[i].t + s[i].res.resetAfter => s[i + 1].res.allowed

\* --------------------------------------------------------------- C12
\* C12: after every TakeToken call the stored token count of the key lies in
\* 0..burst, and so does the token count the call returns.
C12_TokensInRange ==
    /\ \A k \in Keys :
          tokenBucketEntries[k].found =>
            /\ 0 <= tokenBucketEntries[k].tokens
            /\ tokenBucketEntries[k].tokens <= burst * TokScale
    /\ \A i \in Takes :
          0 <= tbLog[i].tokens /\ tbLog[i].tokens <= burst * TokScale

\* --------------------------------------------------------------- C13
\* C13: when the store's Increment or TakeToken returns an error, Allow returns
\* that same error and a Result with allowed = false and limit, remaining and
\* resetAfter all zero.
C13_StoreErrorPropagated ==
    \A i \in DOMAIN errLog :
        /\ errLog[i].ret.err = errLog[i].storeErr
        /\ ~errLog[i].ret.res.allowed
        /\ errLog[i].ret.res.limit = 0
        /\ errLog[i].ret.res.remaining = 0
        /\ errLog[i].ret.res.resetAfter = 0

\* Witness of C13: with a limit and a burst of 2, both limiters have returned a
\* store error.
C13_Witness ==
    /\ limit = 2 /\ burst = 2
    /\ \E i \in DOMAIN errLog :
          errLog[i].limiter = "fixedWindow" /\ errLog[i].ret.err \in StoreErrors
    /\ \E i \in DOMAIN errLog :
          errLog[i].limiter = "tokenBucket" /\ errLog[i].ret.err \in StoreErrors

\* --------------------------------------------------------------- C14
\* C14: a store operation of the in-memory store invoked with a cancelled
\* context leaves both entry maps unchanged and does not count the request.
C14_CancelledStartsNoWork ==
    [][/\ (Len(fwLog') > Len(fwLog) /\ fwLog'[Len(fwLog')].cancelled)
            => /\ fixedWindowEntries' = fixedWindowEntries
               /\ tokenBucketEntries' = tokenBucketEntries
       /\ (Len(tbLog') > Len(tbLog) /\ tbLog'[Len(tbLog')].op = "take"
                                    /\ tbLog'[Len(tbLog')].cancelled)
            => /\ fixedWindowEntries' = fixedWindowEntries
               /\ tokenBucketEntries' = tokenBucketEntries]_vars

\* --------------------------------------------------------------- C15
\* C15, safety: once the context passed to NewMemory is cancelled the reaper
\* performs at most one further sweep, and it does not hold the mutex after it
\* has terminated.
C15_AtMostOneLateSweep ==
    /\ lateSweeps <= 1
    /\ reaper = "stopped" => mu = 0

\* C15, liveness: once the context is cancelled the reaper terminates.
C15_ReaperTerminates == ctxDone ~> (reaper = "stopped")

\* C15, usability: calls made after the reaper has terminated are answered as
\* the calls before.
C15_StoreUsableAfterStop ==
    reaper = "stopped" =>
        /\ ENABLED FixedWindowAllow(SharedKey)
        /\ ENABLED TokenBucketAllow(SharedKey)

\* --------------------------------------------------------------- C16
\* The instant of the last tick of the reaper's ticker.
LastTick == now - (now % cleanupInterval)

\* A key holds the fixed-window entry that expires at x.
HoldsEntry(k, x) ==
    fixedWindowEntries[k].found /\ fixedWindowEntries[k].expiresAt = x

\* C16: a fixed-window entry is removed by the first tick of the reaper that
\* occurs strictly after its expiresAt: once the reaper has handled its last
\* tick no entry that expired before that tick is left, and an expired entry
\* with a tick pending is removed (or replaced by a later one).
C16_ExpiredEntrySwept ==
    /\ [](~tickPending =>
            \A k \in Keys : fixedWindowEntries[k].found =>
                               fixedWindowEntries[k].expiresAt >= LastTick)
    /\ \A k \in Keys : \A x \in 0..(MaxTimeFW + 3) :
          (HoldsEntry(k, x) /\ now > x /\ tickPending) ~> ~HoldsEntry(k, x)

\* Witness of C16: an entry created at 0 with a window of 2 ticks, half the
\* period of the reaper, was swept on the tick at 4 and the map is empty.
C16_Witness ==
    /\ cleanupInterval = 4 /\ window = 2 /\ now >= 4 /\ ~tickPending
    /\ Len(fwLog) = 1 /\ fwLog[1].t = 0 /\ fwLog[1].expiresAt = 2
    /\ \A k \in Keys : ~fixedWindowEntries[k].found

\* ------------------------------------------------------- C17 to C20
\* The requests on which the key function and Allow both succeeded.
Limited == {i \in DOMAIN httpLog : /\ httpLog[i].keyErr = NoError
                                   /\ httpLog[i].allowCalls = 1
                                   /\ httpLog[i].ret.err = NoError}

\* --------------------------------------------------------------- C17
\* C17: on every request on which key extraction and Allow both succeed the
\* middleware dispatches one way: if the Result is allowed the downstream
\* handler is invoked once and the error handler is not; otherwise the error
\* handler is invoked once with ErrorExceeded and the Result of Allow, and the
\* downstream handler is not.
C17_DispatchesExactlyOneWay ==
    \A i \in Limited :
        LET w == httpLog[i]
        IN  IF w.ret.res.allowed
            THEN Downstream(w) = 1 /\ w.handled = <<>>
            ELSE /\ Downstream(w) = 0
                 /\ w.handled = <<[err |-> ErrorExceeded, res |-> w.ret.res]>>

\* Witness of C17: the net/http middleware has served an admitted request and
\* the Gin middleware a refused one.
C17_Witness ==
    /\ \E i \in Limited : httpLog[i].mw = "nethttp" /\ Downstream(httpLog[i]) = 1
    /\ \E i \in Limited : httpLog[i].mw = "gin" /\ Len(httpLog[i].handled) = 1

\* --------------------------------------------------------------- C18
\* C18: on every request on which key extraction and Allow both succeed,
\* admitted or refused, the middleware sets X-RateLimit-Limit = Result.limit,
\* X-RateLimit-Remaining = Result.remaining and X-RateLimit-Reset =
\* floor(now + Result.resetAfter) in Unix seconds, before it dispatches.
C18_HeadersAlwaysSet ==
    \A i \in Limited :
        LET w == httpLog[i]
        IN  /\ w.headers.Limit = w.ret.res.limit
            /\ w.headers.Remaining = w.ret.res.remaining
            /\ w.headers.Reset * TicksPerSecond <= w.t + w.ret.res.resetAfter
            /\ w.t + w.ret.res.resetAfter < (w.headers.Reset + 1) * TicksPerSecond
            /\ Len(w.steps) = 2 /\ w.steps[1] = "headers"
            /\ w.steps[2] \in {"ErrorHandler", "next"}

\* Witness of C18: a refused request with a wait, and an admitted request at an
\* instant that is not a whole second.
C18_Witness ==
    /\ \E i \in Limited : /\ ~httpLog[i].ret.res.allowed
                           /\ httpLog[i].ret.res.resetAfter > 0
    /\ \E i \in Limited : /\ httpLog[i].ret.res.allowed
                           /\ (httpLog[i].t + httpLog[i].ret.res.resetAfter)
                                  % TicksPerSecond # 0

\* --------------------------------------------------------------- C19
\* C19: when the key function returns an error the middleware responds 500 and
\* logs at error level; it calls neither Allow nor the error handler nor the
\* downstream handler, and the request changes no state of the store.
C19_KeyErrorIs500 ==
    /\ [](\A i \in DOMAIN httpLog :
            httpLog[i].keyErr # NoError =>
              /\ httpLog[i].status = 500
              /\ httpLog[i].logs = <<"error">>
              /\ httpLog[i].allowCalls = 0
              /\ httpLog[i].handled = <<>>
              /\ Downstream(httpLog[i]) = 0)
    /\ [][(Len(httpLog') > Len(httpLog)
              /\ httpLog'[Len(httpLog')].keyErr # NoError)
            => UNCHANGED <<fixedWindowEntries, tokenBucketEntries>>]_vars

\* Witness of C19: after a request that was counted, a request whose key
\* function failed has been answered, the store holding an entry of its key.
C19_Witness ==
    /\ Len(httpLog) = 2 /\ 1 \in Limited
    /\ httpLog[2].keyErr \in KeyErrors
    /\ fixedWindowEntries[httpLog[2].key].found

\* --------------------------------------------------------------- C20
\* C20: when Allow returns an error the middleware responds 500 and logs, and
\* invokes neither the downstream handler nor the error handler, whatever the
\* Result that comes with the error.
C20_AllowErrorIs500 ==
    \A i \in DOMAIN httpLog :
        httpLog[i].ret.err # NoError =>
          /\ httpLog[i].status = 500
          /\ httpLog[i].logs = <<"error">>
          /\ httpLog[i].handled = <<>>
          /\ Downstream(httpLog[i]) = 0

\* Witness of C20: Allow has returned the sentinel ErrorExceeded with an
\* allowed Result to one middleware, and a store error with the zero Result to
\* the other.
C20_Witness ==
    /\ \E i \in DOMAIN httpLog :
          /\ httpLog[i].ret.err = ErrorExceeded /\ httpLog[i].ret.res.allowed
    /\ \E i \in DOMAIN httpLog :
          /\ httpLog[i].ret.err \in StoreErrors
          /\ httpLog[i].ret.res = zeroResult
          /\ httpLog[i].mw # httpLog[1].mw

\* --------------------------------------------------------------- C21
\* The least whole number of seconds that is no shorter than d ticks.
CeilSeconds(d) ==
    CHOOSE n \in 0..(d + 1) : /\ n * TicksPerSecond >= d
                              /\ (n - 1) * TicksPerSecond < d

\* C21: for every Result the default error handler is invoked with, a wait of
\* 0 and a wait below a second included, the response has status 429 and
\* Retry-After = max(1, ceil(resetAfter in seconds)).
C21_RetryAfterCeilAtLeastOne ==
    \A i \in DOMAIN httpLog :
        \A j \in DOMAIN httpLog[i].handled :
            /\ httpLog[i].status = 429
            /\ httpLog[i].headers.RetryAfter =
                  Max(1, CeilSeconds(httpLog[i].handled[j].res.resetAfter))

\* Witness of C21: the error handler has answered a refusal with no wait and a
\* refusal whose wait is more than one second and not a whole number of them.
C21_Witness ==
    /\ \E i \in DOMAIN httpLog :
          /\ Len(httpLog[i].handled) = 1
          /\ httpLog[i].handled[1].res.resetAfter = 0
    /\ \E i \in DOMAIN httpLog :
          /\ Len(httpLog[i].handled) = 1
          /\ httpLog[i].handled[1].res.resetAfter > TicksPerSecond
          /\ httpLog[i].handled[1].res.resetAfter % TicksPerSecond # 0

\* --------------------------------------------------------------- C22
\* The two-element contract of the token-bucket script's reply: a list of
\* exactly an integer and a numeric string.
WellFormedReply(res) ==
    /\ res.list /\ Len(res.elems) = 2
    /\ res.elems[1].type = "int64"
    /\ res.elems[2].type = "string"
    /\ ParseFloat(res.elems[2]).err = NoError

\* C22: the Redis store's TakeToken answers every script reply whose shape is
\* not the two-element contract with an error, and never with an (allowed,
\* tokens) value.
C22_MalformedReplyRejected ==
    \A i \in DOMAIN redisLog :
        (redisLog[i].run.err = NoError /\ ~WellFormedReply(redisLog[i].run.res))
            => redisLog[i].ret.err # NoError /\ ~redisLog[i].ret.panic

\* --------------------------------------------------------------- C23
\* C23: no store operation and no Allow returns the sentinel ErrorExceeded; a
\* malformed remote reply is reported with another error.
C23_ExceededNeverFromStore ==
    \A i \in DOMAIN redisLog :
        /\ redisLog[i].ret.err # ErrorExceeded
        /\ redisLog[i].allow.err # ErrorExceeded

\* --------------------------------------------------------------- C24
\* C24: for successive requests of one key whose Allow calls fall in the same
\* fixed window, the X-RateLimit-Reset values the middleware emits over a
\* fixed-window limiter do not decrease in request order.
C24_ResetNonDecreasing ==
    \A i \in Limited : \A j \in Limited :
        (/\ i < j /\ httpLog[i].key = httpLog[j].key
         /\ httpLog[i].limiter = "fixedWindow"
         /\ httpLog[j].limiter = "fixedWindow"
         /\ Truncate(httpLog[i].t, window) = Truncate(httpLog[j].t, window))
            => httpLog[i].headers.Reset <= httpLog[j].headers.Reset

\* --------------------------------------------------------------- C25
\* The key has an entry that has not expired.
Live(k) ==
    fixedWindowEntries[k].found /\ ~(now > fixedWindowEntries[k].expiresAt)

\* The step is a fixed-window call on key k.
IncrementStep(k) ==
    /\ Len(fwLog') = Len(fwLog) + 1
    /\ fwLog'[Len(fwLog')].key = k

\* C25: Increment on a key with a live entry returns count + 1, stores it and
\* leaves expiresAt as it was, requests admitted and refused alike, so no
\* request postpones the restart of the count; the count is not capped at the
\* limit.
C25_IncrementKeepsExpiry ==
    [][\A k \in Keys :
          (Live(k) /\ IncrementStep(k)) =>
              /\ fwLog'[Len(fwLog')].count = fixedWindowEntries[k].count + 1
              /\ fixedWindowEntries'[k] =
                    fixedWindowEntry(fixedWindowEntries[k].count + 1,
                                     fixedWindowEntries[k].expiresAt)]_vars

\* Witness of C25: a refused request has raised the count of a live entry
\* above the limit, at an instant after the entry's creation, and the entry
\* still expires one window after its creation.
C25_Witness ==
    \E i \in DOMAIN fwLog :
        /\ i > 1 /\ fwLog[i].count > limit + 1 /\ ~fwLog[i].res.allowed
        /\ fwLog[i].t > fwLog[1].t /\ fwLog[i].key = fwLog[1].key
        /\ fwLog[i].expiresAt = fwLog[1].t + window
        /\ fixedWindowEntries[fwLog[i].key].count = fwLog[i].count

\* --------------------------------------------------------------- C26
\* C26: every fixed-window entry in the map has count >= 1, and Increment on a
\* key with no entry, or with an entry whose expiresAt has passed and which
\* the reaper has not swept yet, stores a fresh entry with count = 1 and
\* expiresAt = now + window and returns 1.
C26_FreshEntryCountsFromOne ==
    /\ [](\A k \in Keys :
            fixedWindowEntries[k].found => fixedWindowEntries[k].count >= 1)
    /\ [][\A k \in Keys :
            (~Live(k) /\ IncrementStep(k)) =>
                /\ fwLog'[Len(fwLog')].count = 1
                /\ fixedWindowEntries'[k] = fixedWindowEntry(1, now + window)]_vars

\* Witness of C26: a call has found the expired entry of its key still in the
\* map, with a count above 1, and has started a fresh entry from 1; the tick
\* still pending shows that no sweep has run since the entry expired.
C26_Witness ==
    \E i \in DOMAIN fwLog :
        /\ i > 2 /\ fwLog[i].count = 1 /\ fwLog[i].expiresAt = now + window
        /\ fwLog[i - 1].key = fwLog[i].key /\ fwLog[i - 1].count = 2
        /\ fwLog[i - 1].expiresAt < now /\ fwLog[i].t = now /\ tickPending

\* --------------------------------------------------------------- C27
\* The step is a token-bucket call on key k that is refused.
DeniedTakeStep(k) ==
    /\ Len(tbLog') = Len(tbLog) + 1
    /\ tbLog'[Len(tbLog')].op = "take"
    /\ tbLog'[Len(tbLog')].key = k
    /\ ~tbLog'[Len(tbLog')].res.allowed

\* C27: a refused TakeToken consumes nothing: it stores tokens = min(burst,
\* tokens before + elapsed * rate), which is below 1 and no less than before,
\* and lastUpdated = now, and returns that token value; so from one refused
\* call of a key to the next, with no admitted call between them, the tokens
\* grow by exactly the refill of the time between the two, up to burst.
C27_DeniedTakesNothing ==
    /\ [][\A k \in Keys :
            DeniedTakeStep(k) =>
              LET e == tokenBucketEntries[k]
                  tk == Min(burst * TokScale,
                            e.tokens + (now - e.lastUpdated) * rate)
              IN  /\ e.found
                  /\ tokenBucketEntries'[k] = tokenBucketEntry(tk, now)
                  /\ tbLog'[Len(tbLog')].tokens = tk
                  /\ tk < TokScale /\ tk >= e.tokens]_vars
    /\ [](\A k \in Keys :
            LET s == TBCalls(k)
            IN  \A i \in 1..(Len(s) - 1) :
                  (~s[i].res.allowed /\ ~s[i + 1].res.allowed) =>
                    s[i + 1].tokens =
                      Min(burst * TokScale,
                          s[i].tokens + (s[i + 1].t - s[i].t) * rate))

\* Witness of C27: two refused calls of a key in a row, at different instants,
\* the second returning more than the first and still a fraction of a token.
C27_Witness ==
    LET s == TBCalls("u1")
    IN  \E i \in 1..(Len(s) - 1) :
          /\ ~s[i].res.allowed /\ ~s[i + 1].res.allowed
          /\ s[i + 1].t > s[i].t
          /\ s[i].tokens > 0 /\ s[i + 1].tokens > s[i].tokens
          /\ tokenBucketEntries["u1"] = tokenBucketEntry(s[i + 1].tokens, now)

\* --------------------------------------------------------------- C28
\* C28: for every key the lastUpdated values its token-bucket entry is given,
\* one by each TakeToken call, do not decrease over the life of the store, an
\* eviction by the reaper and the creation of a new entry between two of them
\* included; the entry in the map holds the latest of them.
C28_LastUpdatedMonotonic ==
    \A k \in Keys :
        LET s == TBCalls(k)
        IN  /\ \A i \in 1..(Len(s) - 1) :
                  s[i].lastUpdated <= s[i + 1].lastUpdated
            /\ tokenBucketEntries[k].found =>
                  tokenBucketEntries[k].lastUpdated = s[Len(s)].lastUpdated

\* Witness of C28: the reaper has evicted the entry of a key that was last
\* updated after the start, and a later call has created it anew.
C28_Witness ==
    \E i \in DOMAIN tbLog : \E j \in DOMAIN tbLog : \E n \in DOMAIN tbLog :
        /\ i < j /\ j < n
        /\ tbLog[i].op = "take" /\ tbLog[i].lastUpdated > 0
        /\ tbLog[j].op = "evict" /\ tbLog[j].key = tbLog[i].key
        /\ tbLog[n].op = "take" /\ tbLog[n].key = tbLog[i].key
        /\ ~tbLog[n].found /\ tbLog[n].lastUpdated > tbLog[i].lastUpdated

\* --------------------------------------------------------------- C29
\* The step is a sweep of the reaper: nothing else takes the pending tick.
SweepStep == tickPending /\ ~tickPending'

\* C29: each sweep of the reaper, made in one piece while no caller holds the
\* mutex, deletes exactly the fixed-window entries with now > expiresAt and
\* exactly the token-bucket entries with now - lastUpdated > 10 *
\* cleanupInterval, and leaves every other entry as it was.
C29_SweepDeletesExactlyStale ==
    [][SweepStep =>
          /\ mu = 0 /\ mu' = 0
          /\ \A k \in Keys :
                /\ fixedWindowEntries'[k] =
                      IF /\ fixedWindowEntries[k].found
                         /\ now > fixedWindowEntries[k].expiresAt
                      THEN noFixedWindowEntry ELSE fixedWindowEntries[k]
                /\ tokenBucketEntries'[k] =
                      IF /\ tokenBucketEntries[k].found
                         /\ now - tokenBucketEntries[k].lastUpdated
                                > 10 * cleanupInterval
                      THEN noTokenBucketEntry ELSE tokenBucketEntries[k]]_vars

\* Witness of C29: a sweep has just evicted a stale bucket and left in place a
\* fixed-window entry that expires at this very instant; an expired entry of
\* another key has been deleted before.
C29_Witness ==
    /\ Len(tbLog) > 0 /\ tbLog[Len(tbLog)].op = "evict"
    /\ tbLog[Len(tbLog)].t = now /\ ~tickPending
    /\ ~tokenBucketEntries[SharedKey].found
    /\ \E k \in Keys : /\ fixedWindowEntries[k].found
                        /\ fixedWindowEntries[k].expiresAt = now
    /\ \E i \in DOMAIN fwLog : /\ fwLog[i].expiresAt < now
                              /\ ~fixedWindowEntries[fwLog[i].key].found

\* --------------------------------------------------------------- C30
\* C30: a memory store created with cleanupInterval = 0, or with a negative
\* one, has no reaper: no step removes an entry from either map, whatever the
\* calls made and whether or not the context is cancelled.
C30_NoReaperNoRemoval ==
    /\ [](cleanupInterval <= 0 => reaper = "none" /\ ~tickPending)
    /\ [][cleanupInterval <= 0 =>
            \A k \in Keys :
                /\ fixedWindowEntries[k].found => fixedWindowEntries'[k].found
                /\ tokenBucketEntries[k].found => tokenBucketEntries'[k].found]_vars

\* Witness of C30: in a store with no reaper, its context cancelled, the map
\* holds a fixed-window entry past its expiry and a token-bucket entry idle
\* for longer than ten cleanup intervals.
C30_Witness ==
    /\ cleanupInterval <= 0 /\ ctxDone
    /\ \E k \in Keys : /\ fixedWindowEntries[k].found
                        /\ now > fixedWindowEntries[k].expiresAt
    /\ \E k \in Keys : /\ tokenBucketEntries[k].found
                        /\ now - tokenBucketEntries[k].lastUpdated
                              > 10 * cleanupInterval
                        /\ now > tokenBucketEntries[k].lastUpdated

\* --------------------------------------------------------------- C31
\* The distance between the reset instant a call reports and the expiry of
\* the store entry that counted it.
ResetGap(r) ==
    IF r.t + r.res.resetAfter >= r.expiresAt
    THEN r.t + r.res.resetAfter - r.expiresAt
    ELSE r.expiresAt - (r.t + r.res.resetAfter)

\* The reported resetAfter leads to the next point of the window grid: it is
\* in (0, window], and alike for all keys at one instant.
ResetOnGrid ==
    /\ \A i \in DOMAIN fwLog :
          /\ fwLog[i].res.resetAfter > 0
          /\ fwLog[i].res.resetAfter <= window
          /\ (fwLog[i].t + fwLog[i].res.resetAfter) % window = 0
    /\ \A i \in DOMAIN fwLog : \A j \in DOMAIN fwLog :
          fwLog[i].t = fwLog[j].t =>
              fwLog[i].res.resetAfter = fwLog[j].res.resetAfter

WholeTokens(tk) ==
    CHOOSE n \in -1..burst : n * TokScale <= tk /\ tk < (n + 1) * TokScale

\* C32: every Result of a token-bucket Allow whose store call succeeded has
\* limit = burst and remaining = max(0, floor(tokens)), tokens being the value
\* TakeToken returned, for admitted and refused calls alike.
C32_RemainingIsFloorOfTokens ==
    \A i \in Takes :
        /\ tbLog[i].res.limit = burst
        /\ tbLog[i].res.remaining = Max(0, WholeTokens(tbLog[i].tokens))

\* Witness of C32: a refused call that returned a fraction of a token and an
\* admitted call that left a fraction of a token too.
C32_Witness ==
    /\ \E i \in Takes : /\ ~tbLog[i].res.allowed
                          /\ tbLog[i].tokens > 0
                          /\ tbLog[i].tokens < TokScale
    /\ \E j \in Takes : /\ tbLog[j].res.allowed
                          /\ tbLog[j].tokens % TokScale # 0

\* --------------------------------------------------------------- C33
\* The runs of the fixed-window script on key k, in order.
RedisIncrements(k) ==
    LET OfKey(e) == e.op = "Increment" /\ e.key = k /\ e.err = NoError
    IN  SelectSeq(redisLog, OfKey)

\* The script replies the value after the increment, which is 1 where the key
\* was absent or expired and one more than the last reply otherwise, and only
\* a run that replies 1 touches the time to live of the key.
IncrementsCount(ttl) ==
    \A k \in Keys :
        LET s == RedisIncrements(k)
        IN  \A i \in DOMAIN s :
              LET fresh == \/ i = 1
                           \/ ~RedisAlive(s[i - 1].after, s[i].t)
              IN  /\ s[i].count = IF fresh THEN 1 ELSE s[i - 1].count + 1
                  /\ s[i].count = 1 =>
                        /\ ttl > 0 => RedisAlive(s[i].after, s[i].t + ttl)
                        /\ ~RedisAlive(s[i].after, s[i].t + ttl + 1)
                  /\ s[i].count > 1 =>
                        /\ s[i].after.value = s[i].count
                        /\ s[i].after.ttl = s[i - 1].after.ttl
                        /\ s[i].after.expireAt = s[i - 1].after.expireAt

\* C33: the remote fixed-window script increments the integer of the key in
\* one piece and returns the value after the increment; it sets a time to
\* live equal to the window exactly when that value is 1, and later
\* increments never set or extend it, so the counter of a key restarts one
\* window after its first increment.
C33_CounterRestartsAfterWindow == IncrementsCount(window)

\* What the script does: the time to live is the whole milliseconds of the
\* window, so the counter restarts that many milliseconds after its first
\* increment, and at once where the window is shorter than a millisecond.
CounterRestartsAfterWindowMillis ==
    IncrementsCount(Milliseconds(window) * TicksPerMilli)

\* A window of half a millisecond: two increments of a key at one instant
\* both reply 1.
CounterNeverCounts ==
    \E k \in Keys :
        LET s == RedisIncrements(k)
        IN  /\ Len(s) >= 2 /\ Milliseconds(window) = 0
            /\ s[1].count = 1 /\ s[2].count = 1 /\ s[2].t = s[1].t

\* --------------------------------------------------------------- C34
\* The runs of the token-bucket script on key k, in order.
ScriptRuns(k) ==
    LET OfKey(e) == e.op = "TakeTokenScript" /\ e.key = k
    IN  SelectSeq(redisLog, OfKey)

\* max(10, ceil(2 * burst / rate)) seconds in ticks: the least number of
\* seconds, 10 or more, in which the rate refills no less than twice burst.
TTLTicks ==
    LET Enough(s) ==
            s >= 10 /\ s * rate * TicksPerSecond >= 2 * burst * TokScale
        secs == CHOOSE s \in 10..(10 + 2 * burst * TokScale) :
                    Enough(s) /\ \A s2 \in 10..(s - 1) : ~Enough(s2)
    IN  secs * TicksPerSecond

\* C34: every run of the remote token-bucket script, admitting or denying,
\* writes back the tokens it returns and last_updated = now and sets the time
\* to live of the key to max(10, ceil(2 * burst / rate)) seconds, so a run
\* starts from a full bucket exactly where the key is new or the last run on
\* it is longer ago than that.
C34_EveryRunWritesAndExpires ==
    \A k \in Keys :
        LET s == ScriptRuns(k)
        IN  \A i \in DOMAIN s :
              /\ s[i].after.found
              /\ s[i].after.tokens = s[i].ret.tokens
              /\ s[i].after.last_updated = s[i].t
              /\ s[i].after.ttl /\ s[i].after.expireAt = s[i].t + TTLTicks
              /\ s[i].loaded =
                    IF i = 1 \/ s[i].t - s[IF i = 1 THEN 1 ELSE i - 1].t > TTLTicks
                    THEN [tokens |-> burst * TokScale, last_updated |-> s[i].t]
                    ELSE [tokens |-> s[i - 1].after.tokens,
                          last_updated |-> s[i - 1].t]

\* Witness of C34: the second run on a key has denied, later than the first
\* and within the time to live that the first had set, and the third, later
\* than the time to live of the first and within that of the second, has
\* found the key.
C34_Witness ==
    \E k \in Keys :
        LET s == ScriptRuns(k)
        IN  /\ Len(s) = 3
            /\ ~s[2].ret.allowed /\ s[2].t > s[1].t
            /\ s[2].t < s[1].t + TTLTicks
            /\ s[3].t > s[1].t + TTLTicks
            /\ s[3].loaded.last_updated = s[2].t

\* --------------------------------------------------------------- C35
\* C35: for the same rate, every burst (0 included) and the same timed
\* TakeToken calls on a key with no eviction in between, the in-memory store
\* and the remote script return the same (allowed, tokens) for every call.
C35_StoresReturnTheSame ==
    \A i \in DOMAIN redisLog :
        redisLog[i].op = "TakeTokenOnBoth" =>
            /\ redisLog[i].redis.err = NoError
            /\ redisLog[i].redis.allowed = redisLog[i].memory.allowed
            /\ redisLog[i].redis.tokens = redisLog[i].memory.tokens
            /\ redisLog[i].redis.exact

\* What holds of the two stores: with a burst of 1 or more they agree on
\* allowed, and on tokens up to the 14 digits of the script's reply.
StoresAgreeFromBurstOne ==
    \A i \in DOMAIN redisLog :
        (redisLog[i].op = "TakeTokenOnBoth" /\ burst >= 1) =>
            /\ redisLog[i].redis.allowed = redisLog[i].memory.allowed
            /\ redisLog[i].redis.tokens = redisLog[i].memory.tokens

\* With burst 0 the first call on a key is admitted by the in-memory store
\* and denied by the script.
StoresDifferAtBurstZero ==
    \E i \in DOMAIN redisLog :
        /\ redisLog[i].op = "TakeTokenOnBoth" /\ burst = 0
        /\ redisLog[i].memory = [allowed |-> TRUE, tokens |-> -TokScale]
        /\ ~redisLog[i].redis.allowed /\ redisLog[i].redis.tokens = 0

\* With burst 1 a denied call returns a number of tokens whose 14 digits in
\* the reply of the script are not the number itself.
StoresDifferInDigits ==
    \E i \in DOMAIN redisLog :
        /\ redisLog[i].op = "TakeTokenOnBoth" /\ burst >= 1
        /\ ~redisLog[i].redis.exact

\* --------------------------------------------------------------- C36
\* The Allow calls on key k, in order.
IncrementsOf(k) ==
    LET OfKey(e) == e.key = k
    IN  SelectSeq(fwLog, OfKey)

\* The entry of a key after the first n calls of s on a store that no reaper
\* sweeps.
RECURSIVE Unswept(_, _)
Unswept(s, n) ==
    IF n = 0 THEN noFixedWindowEntry
    ELSE LET e == Unswept(s, n - 1)
         IN  IF e.found /\ s[n].t <= e.expiresAt
             THEN [e EXCEPT !.count = @ + 1]
             ELSE [found |-> TRUE, count |-> 1, expiresAt |-> s[n].t + window]

\* C36: the reaper is invisible to fixed-window callers: whatever sweeps
\* come between them, each Increment returns the count it would return on a
\* store with the reaper disabled.
C36_ReaperInvisibleToIncrement ==
    \A k \in Keys :
        LET s == IncrementsOf(k)
        IN  \A n \in DOMAIN s : s[n].count = Unswept(s, n).count

\* Witness of C36: a call has found no entry for a key that was called
\* before, the reaper having removed it, and another has counted 2 on a key.
C36_Witness ==
    \E k \in Keys :
        LET s == IncrementsOf(k)
        IN  /\ \E n \in DOMAIN s : n > 1 /\ ~s[n].found /\ s[n].count = 1
            /\ \E n \in DOMAIN s : s[n].count = 2

\* --------------------------------------------------------------- C37
\* The step is a fixed-window call on key k.
IncrementOn(k) ==
    /\ Len(fwLog') = Len(fwLog) + 1
    /\ fwLog'[Len(fwLog')].key = k

\* The step is a token-bucket call on key k.
TakeTokenOn(k) ==
    /\ Len(tbLog') = Len(tbLog) + 1
    /\ tbLog'[Len(tbLog')].op = "take"
    /\ tbLog'[Len(tbLog')].key = k

\* C37: keys are isolated in the in-memory store: Increment(k) changes only
\* the fixed-window entry of k and TakeToken(k) only the token-bucket entry
\* of k, the entries of every other key and of the other limiter stay as
\* they are, and what a call returns is determined by the entry of its own
\* key and limiter.
C37_KeysIsolated ==
    [][\A k \in Keys :
         /\ IncrementOn(k) =>
               /\ \A k2 \in Keys \ {k} :
                     fixedWindowEntries'[k2] = fixedWindowEntries[k2]
               /\ tokenBucketEntries' = tokenBucketEntries
               /\ fixedWindowEntries'[k] # fixedWindowEntries[k]
               /\ fwLog'[Len(fwLog')].count =
                     IF Live(k) THEN fixedWindowEntries[k].count + 1 ELSE 1
         /\ TakeTokenOn(k) =>
               /\ \A k2 \in Keys \ {k} :
                     tokenBucketEntries'[k2] = tokenBucketEntries[k2]
               /\ fixedWindowEntries' = fixedWindowEntries
               /\ tokenBucketEntries'[k].found
               /\ tbLog'[Len(tbLog')].tokens = tokenBucketEntries'[k].tokens]_vars

\* Witness of C37: both limiters have been called on one key and the
\* fixed-window limiter on the other, and each entry holds what its own calls
\* left there.
C37_Witness ==
    \E k \in Keys : \E k2 \in Keys \ {k} :
        /\ \E i \in DOMAIN fwLog : fwLog[i].key = k
        /\ \E i \in DOMAIN fwLog : fwLog[i].key = k2
        /\ \E i \in Takes : tbLog[i].key = k
        /\ fixedWindowEntries[k].found /\ fixedWindowEntries[k2].found
        /\ tokenBucketEntries[k].found /\ ~tokenBucketEntries[k2].found

\* --------------------------------------------------------------- C38
\* The mutex is held only by a goroutine inside Increment, TakeToken or a
\* sweep: a caller that has returned and a reaper that has returned hold
\* nothing, and a caller holds it exactly between its Lock and its Unlock.
MutexHeldInside ==
    /\ \A p \in Procs :
          mu = p <=> callers[p].pc \in {"lookup", "write", "unlock", "take",
                                        "unlockTake"}
    /\ reaper = "stopped" => mu # ReaperGoroutine

\* Goroutine p is inside Increment or TakeToken.
Calling(p) ==
    callers[p].pc \in {"lock", "lookup", "write", "unlock", "result",
                       "lockTake", "take", "unlockTake"}

\* C38: the in-memory store is free of deadlock: Increment, TakeToken and
\* every sweep take the one mutex once and release it on every path, so
\* under fair scheduling every Increment and TakeToken call returns, whatever
\* the number of callers, the reaper running or cancelled.
C38_EveryCallReturns ==
    /\ []MutexHeldInside
    /\ \A p \in Procs : Calling(p) ~> callers[p].pc = "done"

\* Witness of C38: every goroutine has returned from its call, one from
\* Increment and one from TakeToken, after the reaper has swept and has
\* returned on the cancelled context.
C38_Witness ==
    /\ \A p \in Procs : callers[p].pc = "done"
    /\ fwLog # <<>>
    /\ Takes # {}
    /\ reaper = "stopped" /\ mu = 0 /\ now > 0 /\ ~tickPending

====
